---- MODULE Spec2Model ----
(***************************************************************************)
(* Model of the retrieval-augmented answer pipeline of raggy-muffin:       *)
(* tenant-scoped retrieval (api/app/core/rag.py and app/rag.py),           *)
(* structured extraction, answer synthesis with its template fallback,     *)
(* and the Server-Sent-Events streaming of chat.py.                        *)
(*                                                                         *)
(* Texts are sequences of characters.  The alphabet is reduced: " " and    *)
(* "\n" are whitespace, "*" stands for the bullet marker U+2022, ":" is    *)
(* the colon and every other character is a letter; in the template        *)
(* answers one letter stands for one word of the real sentence.            *)
(***************************************************************************)
EXTENDS Integers, Sequences, FiniteSets, TLC

VARIABLES
    store,      \* rows of the embeddings table
    req,        \* the request being served: entry point, tenant, question, top_k
    pc,         \* position of the handler / generator
    client,     \* whether the consumer of the stream is still connected
    retr,       \* outcome of retrieval: how it ended and the row ids it returned
    answer,     \* outcome of answer synthesis: how it ended and the text
    pending,    \* chunks generate_streaming_response has not yielded yet
    frames,     \* Server-Sent-Events frames yielded so far, in order
    resp,       \* what the entry point returned to its caller
    raised,     \* exceptions raised so far while serving the request
    doc,        \* the arguments of a chunk_text call: text, chunk_size, overlap_words
    chunked,    \* outcome of the chunk_text call
    workers,    \* per script run of the app: position, and the extractor it holds
    loads,      \* how often each model or client was initialized in this process
    passages,   \* the argument of an extract_contact_info call
    extracted,  \* outcome of the extract_contact_info call
    sessions,   \* committed rows of the chat_sessions table
    messages,   \* committed rows of the chat_messages table
    handlers,   \* per chat request in flight: its arguments, position and locals
    wizard,     \* st.session_state of the upload wizard: workflow_step, workflow_data
    uploader,   \* the file held by the file_uploader widget of step 1
    page,       \* how the last run of the wizard's script ended
    saved,      \* the records insert_embeddings stored, in order
    documents,  \* committed rows of the documents table
    embeddings, \* committed rows of the embeddings table written by uploads
    upload      \* per document request in flight: its arguments, position and locals

chatVars == <<store, req, pc, client, retr, answer, pending, frames, resp, raised>>
ingestVars == <<doc, chunked, workers, loads>>
contactVars == <<passages, extracted>>
sessionVars == <<sessions, messages, handlers>>
wizardVars == <<wizard, uploader, page, saved>>
docVars == <<documents, embeddings, upload>>
\* the state outside the chat requests and the ingestion functions
restVars == <<contactVars, sessionVars, wizardVars, docVars>>
vars == <<store, req, pc, client, retr, answer, pending, frames, resp, raised,
          doc, chunked, workers, loads, passages, extracted, sessions, messages,
          handlers, wizard, uploader, page, saved, documents, embeddings, upload>>

-----------------------------------------------------------------------------
(* Bounds of the model.                                                    *)

\* longest answer text enumerated for the streaming re-emission
MaxLen == 5
\* query and passage embeddings are points 0..MaxVec on a line
MaxVec == 2

-----------------------------------------------------------------------------
(* Characters and the Python string operations the code uses.              *)

SP == " "
NL == "\n"
BULLET == "*"
COLON == ":"

IsSpace(c) == c \in {SP, NL}

RECURSIVE Join(_)
\* "".join(parts)
Join(parts) == IF parts = <<>> THEN <<>> ELSE Head(parts) \o Join(Tail(parts))

RECURSIVE JoinWith(_, _)
\* sep.join(parts)
JoinWith(sep, parts) ==
    IF parts = <<>> THEN <<>>
    ELSE IF Len(parts) = 1 THEN Head(parts)
    ELSE Head(parts) \o sep \o JoinWith(sep, Tail(parts))

RECURSIVE LStrip(_)
LStrip(t) == IF t # <<>> /\ IsSpace(Head(t)) THEN LStrip(Tail(t)) ELSE t

RECURSIVE RStrip(_)
RStrip(t) ==
    IF t # <<>> /\ IsSpace(t[Len(t)]) THEN RStrip(SubSeq(t, 1, Len(t) - 1)) ELSE t

\* str.strip()
Strip(t) == RStrip(LStrip(t))

RECURSIVE SplitSep(_, _, _)
\* str.split(sep) for a non-empty separator: cut at each occurrence of sep,
\* found left to right without overlap; cur is the piece being read
SplitSep(t, sep, cur) ==
    IF t = <<>> THEN <<cur>>
    ELSE IF Len(t) >= Len(sep) /\ SubSeq(t, 1, Len(sep)) = sep
         THEN <<cur>> \o SplitSep(SubSeq(t, Len(sep) + 1, Len(t)), sep, <<>>)
         ELSE SplitSep(Tail(t), sep, Append(cur, Head(t)))

SplitOn(t, sep) == SplitSep(t, sep, <<>>)

RECURSIVE SplitWords(_, _)
\* str.split(): cut at runs of whitespace, no empty piece
SplitWords(t, cur) ==
    IF t = <<>> THEN (IF cur = <<>> THEN <<>> ELSE <<cur>>)
    ELSE IF IsSpace(Head(t))
         THEN (IF cur = <<>> THEN <<>> ELSE <<cur>>) \o SplitWords(Tail(t), <<>>)
         ELSE SplitWords(Tail(t), Append(cur, Head(t)))

Split(t) == SplitWords(t, <<>>)

-----------------------------------------------------------------------------
(* generate_streaming_response: the chunks it yields for a complete answer *)

RECURSIVE WordChunksNoSeparator(_)
\* the loop over words with the 'yield " "' between two words left out
WordChunksNoSeparator(words) ==
    IF words = <<>> THEN <<>> ELSE <<Head(words)>> \o WordChunksNoSeparator(Tail(words))

RECURSIVE WordChunks(_)
\* for word_idx, word in enumerate(words): yield word, then " " unless last
WordChunks(words) ==
    IF words = <<>> THEN <<>>
    ELSE IF Len(words) = 1 THEN <<Head(words)>>
    ELSE <<Head(words), <<SP>>>> \o WordChunks(Tail(words))

\* the body of the loop over lines, after the newline between lines
LineChunks(line) ==
    IF Strip(line) = <<>> THEN <<>>
    ELSE IF Head(Strip(line)) = BULLET
         THEN <<<<BULLET, SP>>>> \o WordChunks(Split(Strip(Tail(Strip(line)))))
         ELSE WordChunks(Split(line))

RECURSIVE LinesChunks(_, _)
LinesChunks(lines, first) ==
    IF lines = <<>> THEN <<>>
    ELSE (IF first THEN <<>> ELSE <<<<NL>>>>)
         \o LineChunks(Head(lines)) \o LinesChunks(Tail(lines), FALSE)

RECURSIVE SectionsChunks(_, _)
SectionsChunks(sections, first) ==
    IF sections = <<>> THEN <<>>
    ELSE (IF first THEN <<>> ELSE <<<<NL, NL>>>>)
         \o LinesChunks(SplitOn(Head(sections), <<NL>>), TRUE)
         \o SectionsChunks(Tail(sections), FALSE)

StreamChunks(full_response) ==
    SectionsChunks(SplitOn(full_response, <<NL, NL>>), TRUE)

-----------------------------------------------------------------------------
(* Passages.  A passage is a sequence of lines; a line carries the label   *)
(* it contains ("" for prose), the tokens after the label and whether      *)
(* is_malformed_line holds of it.  Tokens are atomic strings.              *)

Ln(lab, items) == [lab |-> lab, items |-> items, malformed |-> FALSE]

Emails == {"info@acme.org", "help@city.gov"}
\* strings phone_pattern matches, with the digits each reduces to
RawPhones == {"555-123-4567", "(555) 123-4567", "123-4567"}
Digits(p) == IF p = "123-4567" THEN "1234567" ELSE "5551234567"
DigitCount(p) == IF p = "123-4567" THEN 7 ELSE 10
\* f"({d[:3]}) {d[3:6]}-{d[6:]}" of the one 10-digit number of the catalogue
FormatPhone(d) == "(555) 123-4567"
\* strings url_pattern matches; the second fails the '..' validation
Urls == {"https://acme.org", "http://www.."}
UrlValid(u) == u # "http://www.."

\* a normalized passage, as ingestion writes it
Structured ==
    << Ln("CATEGORIES:", <<"food", "housing">>),
       Ln("PROVIDER:", <<"Acme Aid">>),
       Ln("CONTACT INFORMATION:", <<>>),
       Ln("Phone:", <<"555-123-4567">>),
       Ln("Email:", <<"info@acme.org">>),
       Ln("DESCRIPTION:", <<"meals", "daily">>) >>

\* an unstructured passage listing providers as bullets with credentials
Bulleted ==
    << Ln("", <<"our", "staff">>),
       Ln("BULLET", <<"Jane Doe, MD">>),
       Ln("BULLET", <<"Raj Rao, NP">>) >>

\* plain prose holding a raw phone number
Prose == << Ln("", <<"call", "555-123-4567", "today">>) >>

\* a labeled provider followed by a bullet mention
Mixed ==
    << Ln("PROVIDER:", <<"Acme Aid">>),
       Ln("BULLET", <<"Jane Doe, MD">>),
       Ln("CATEGORIES:", <<"food">>) >>

Tenants == {"A", "B"}

Row(id, tenant, vec, content) ==
    [id |-> id, tenant_id |-> tenant, embedding |-> vec, content |-> content]

\* the rows a store may hold; two tenants hold passages of equal content,
\* and tenant A holds one passage twice (rows 3 and 6)
AllRows ==
    { Row(1, "A", 0, Structured), Row(2, "A", 1, Bulleted), Row(3, "A", 2, Prose),
      Row(4, "B", 0, Structured), Row(5, "B", 1, Mixed), Row(6, "A", 0, Prose) }

RowOf(id) == CHOOSE r \in AllRows : r.id = id

\* the content column of the rows a query returned, in order
Contents(ids) == [i \in 1..Len(ids) |-> RowOf(ids[i]).content]

HasLabel(chunk, lab) == \E i \in 1..Len(chunk) : chunk[i].lab = lab

RECURSIVE SeqToSet(_)
SeqToSet(s) == IF s = <<>> THEN {} ELSE {Head(s)} \cup SeqToSet(Tail(s))

RECURSIVE Flatten(_)
Flatten(ss) == IF ss = <<>> THEN <<>> ELSE Head(ss) \o Flatten(Tail(ss))

RECURSIVE Dedup(_, _)
\* append each element of s to acc unless acc holds it already
Dedup(s, acc) ==
    IF s = <<>> THEN acc
    ELSE Dedup(Tail(s), IF Head(s) \in SeqToSet(acc) THEN acc ELSE Append(acc, Head(s)))

RECURSIVE ListOfSet(_)
\* list(set(xs)): some enumeration of the set, the same one in every call
ListOfSet(S) ==
    IF S = {} THEN <<>>
    ELSE LET x == CHOOSE y \in S : TRUE IN <<x>> \o ListOfSet(S \ {x})

\* xs[:n]
Take(xs, n) == SubSeq(xs, 1, IF Len(xs) < n THEN Len(xs) ELSE n)

-----------------------------------------------------------------------------
(* Structured extraction (api/app/core/rag.py).                            *)

\* a Python dict with no key, as in "contact_info = ... if context_chunks else {}"
EmptyDict == <<>>

\* any(contact_info.values())
AnyValues(d) == \E k \in DOMAIN d : d[k] # <<>>

\* the tokens of the lines, among the first upto, that carry one of the labels
LabelTokens(chunk, labs, upto) ==
    UNION { SeqToSet(chunk[i].items) : i \in { k \in 1..upto : chunk[k].lab \in labs } }

\* the tokens of the whole chunk
ChunkTokens(chunk) == UNION { SeqToSet(chunk[i].items) : i \in 1..Len(chunk) }

\* the loop over the lines of a chunk holding a "CONTACT INFORMATION:" block
LabeledContacts(chunk) ==
    LET n == Len(chunk)
    IN  [ emails    |-> LabelTokens(chunk, {"Email:"}, n) \cap Emails,
          phones    |-> { p \in LabelTokens(chunk, {"Phone:"}, n) \cap RawPhones :
                            DigitCount(p) = 10 },
          websites  |-> { u \in LabelTokens(chunk, {"Website:", "URL:"}, n) \cap Urls :
                            UrlValid(u) },
          addresses |-> LabelTokens(chunk, {"Address:"}, n - 1) ]

\* the raw-text scan of one chunk, used when the labeled pass found nothing
RawContacts(chunk) ==
    [ emails    |-> ChunkTokens(chunk) \cap Emails,
      phones    |-> { FormatPhone(Digits(p)) :
                        p \in { t \in ChunkTokens(chunk) \cap RawPhones :
                                  DigitCount(t) = 10 } },
      websites  |-> { u \in ChunkTokens(chunk) \cap Urls : UrlValid(u) },
      addresses |-> {} ]

ContactKeys == {"emails", "phones", "websites", "addresses"}

\* contact_info[:3] of every field
MaxContacts == 3

\* the raw-text scan runs whatever the labeled lines gave
extract_contact_info_raw_always(context_chunks) ==
    LET n == Len(context_chunks)
        labeled == [k \in ContactKeys |->
                       UNION { LabeledContacts(context_chunks[c])[k] :
                                 c \in { d \in 1..n :
                                     HasLabel(context_chunks[d], "CONTACT INFORMATION:") } }]
        raw == [k \in ContactKeys |->
                   UNION { RawContacts(context_chunks[c])[k] : c \in 1..n }]
    IN  [k \in ContactKeys |-> Take(ListOfSet(labeled[k] \cup raw[k]), MaxContacts)]

extract_contact_info(context_chunks) ==
    LET n == Len(context_chunks)
        labeled == [k \in ContactKeys |->
                       UNION { LabeledContacts(context_chunks[c])[k] :
                                 c \in { d \in 1..n :
                                     HasLabel(context_chunks[d], "CONTACT INFORMATION:") } }]
        raw == [k \in ContactKeys |->
                   UNION { RawContacts(context_chunks[c])[k] : c \in 1..n }]
        found == IF \E k \in ContactKeys : labeled[k] # {} THEN labeled ELSE raw
    IN  [k \in ContactKeys |-> Take(ListOfSet(found[k]), MaxContacts)]

extract_categories_from_chunks(chunks) ==
    ListOfSet(UNION { UNION { SeqToSet(chunks[c][i].items) :
                                i \in { j \in 1..Len(chunks[c]) :
                                          chunks[c][j].lab = "CATEGORIES:" } } :
                      c \in 1..Len(chunks) })

\* index of the first line of the chunk carrying the label
FirstLabel(chunk, lab) == CHOOSE i \in 1..Len(chunk) :
    chunk[i].lab = lab /\ \A j \in 1..(i - 1) : chunk[j].lab # lab

\* chunk.split("PROVIDER:")[1].split('\n')[0].strip()
LabeledProvider(chunk) ==
    IF HasLabel(chunk, "PROVIDER:")
    THEN chunk[FirstLabel(chunk, "PROVIDER:")].items
    ELSE <<>>

\* re.findall of the bullet-with-credential pattern, in text order
BulletProviders(chunk) ==
    Flatten([i \in 1..Len(chunk) |->
                IF chunk[i].lab = "BULLET" THEN chunk[i].items ELSE <<>>])

RECURSIVE ProvidersBothRules(_, _)
\* the provider loop of generate_single_prompt_response and of
\* stream_chat_response: per chunk the bullet matches, then the labeled line
ProvidersBothRules(chunks, acc) ==
    IF chunks = <<>> THEN acc
    ELSE ProvidersBothRules(Tail(chunks),
            Dedup(BulletProviders(Head(chunks)) \o LabeledProvider(Head(chunks)), acc))

RECURSIVE ProvidersLabelRule(_, _)
\* the provider loop of generate_answer: the labeled line only
ProvidersLabelRule(chunks, acc) ==
    IF chunks = <<>> THEN acc
    ELSE ProvidersLabelRule(Tail(chunks), Dedup(LabeledProvider(Head(chunks)), acc))

\* clean_text_content(chunk.split("DESCRIPTION:")[1].strip()): the lines from
\* the first label to the next one that the line filter keeps
DescriptionOf(chunk) ==
    IF ~HasLabel(chunk, "DESCRIPTION:") THEN <<>>
    ELSE LET a == FirstLabel(chunk, "DESCRIPTION:")
             kept(i) == /\ i >= a
                        /\ \A j \in (a + 1)..i : chunk[j].lab # "DESCRIPTION:"
                        /\ ~chunk[i].malformed
         IN  Flatten([i \in 1..Len(chunk) |-> IF kept(i) THEN chunk[i].items ELSE <<>>])

RECURSIVE Descriptions(_)
Descriptions(chunks) ==
    IF chunks = <<>> THEN <<>>
    ELSE (IF DescriptionOf(Head(chunks)) # <<>> THEN <<DescriptionOf(Head(chunks))>>
          ELSE <<>>) \o Descriptions(Tail(chunks))

-----------------------------------------------------------------------------
(* Questions.  simulate_llm_response reads a question through substring    *)
(* tests for keyword families; detect_category_in_query (app/rag.py) maps  *)
(* it to categories.  A question is the set of families it matches, the    *)
(* categories detected in it, and whether the app rewrites it as a         *)
(* provider lookup (shorter than 10 characters or holding a lookup term).  *)

Q(id, kw, cats, lookup) == [id |-> id, kw |-> kw, cats |-> cats, lookup |-> lookup]

Questions ==
    { Q("hello", {"greeting"}, <<>>, TRUE),
      Q("what can you do", {"capability"}, <<>>, FALSE),
      Q("urgent food help", {"urgent", "help"}, <<"food">>, FALSE),
      Q("immediate shelter or rent", {"immediate"}, <<"housing", "financial">>, FALSE),
      Q("list of clinics nearby", {}, <<>>, FALSE) }

\* ['emergency', 'urgent', 'crisis', 'immediate'], and the list without 'immediate'
Urgent4(q) == q.kw \cap {"urgent", "immediate"} # {}
Urgent3(q) == "urgent" \in q.kw

-----------------------------------------------------------------------------
(* Answer synthesis (api/app/core/rag.py).                                 *)

Words(ws) == JoinWith(<<SP>>, [i \in 1..Len(ws) |-> <<ws[i]>>])
Bullet(ws) == <<BULLET, SP>> \o Words(ws)

GreetingText ==
    <<"Hi", NL, NL, "ICanHelp", COLON, NL>> \o Bullet(<<"Housing">>) \o <<NL>>
    \o Bullet(<<"Food">>) \o <<NL, NL, "WhatSupport">>

CapabilitiesText ==
    <<"ImHere", NL, NL, "IHaveAccess", COLON, NL, NL>> \o Bullet(<<"Housing", "shelters">>)
    \o <<NL>> \o Bullet(<<"Food", "banks">>) \o <<NL, NL, "JustTellMe">>

UrgentNoInfoText ==
    <<"Urgent", "NotFound", NL, NL, "ForEmergencies", COLON, NL>> \o Bullet(<<"Call911">>)
    \o <<NL>> \o Bullet(<<"Call211">>) \o <<NL, NL, "MoreDetails">>

NoInfoText ==
    <<"NotFound", COLON, NL, NL>> \o Bullet(<<"NotInSystem">>) \o <<NL>>
    \o Bullet(<<"Rephrase">>) \o <<NL, NL, "YouCanTry", COLON, NL>>
    \o Bullet(<<"BeSpecific">>) \o <<NL, NL, "ImHere">>

\* providers[:5] in the provider section
MaxProvidersShown == 5

IntroLine(q, categories) ==
    LET tone == IF Urgent4(q) THEN "Urgent"
                ELSE IF "help" \in q.kw THEN "HappyToHelp"
                ELSE IF categories # <<>> THEN "GreatQuestion" ELSE "HeresWhatIFound"
    IN  IF categories # <<>> THEN Words(<<tone>> \o categories) ELSE <<tone>>

CategoryLines(categories) ==
    IF categories = <<>> THEN <<>>
    ELSE << Words(<<IF Len(categories) = 1 THEN "ServiceCategory" ELSE "RelatedCategories">>
                  \o categories),
            <<>> >>

ProviderLines(providers) ==
    IF providers = <<>> THEN <<>>
    ELSE << <<IF Len(providers) = 1 THEN "AvailableProvider" ELSE "AvailableProviders">> >>
         \o [i \in 1..Len(Take(providers, MaxProvidersShown)) |-> Bullet(<<providers[i]>>)]
         \o (IF Len(providers) > MaxProvidersShown THEN <<Bullet(<<"AndMore">>)>> ELSE <<>>)
         \o << <<>> >>

\* the description body is one letter: which candidate get_best_description
\* picks, and where it is cut, are not modelled
DescriptionLines(descriptions) ==
    IF descriptions = <<>> THEN <<>>
    ELSE << <<"AboutTheseServices">>, <<"description">>, <<>> >>

ContactLines(contact_info) ==
    IF ~AnyValues(contact_info) THEN <<>>
    ELSE LET each(verb, xs) == [i \in 1..Len(xs) |-> Bullet(<<verb, xs[i]>>)]
         IN  << <<"HowToGetStarted">> >>
             \o each("Call", Take(contact_info.phones, MaxContacts))
             \o each("Email", Take(contact_info.emails, MaxContacts))
             \o each("Visit", Take(contact_info.websites, MaxContacts))
             \o each("Location", Take(contact_info.addresses, 1))
             \o << <<>> >>

NextStepLines(q, contact_info, providers) ==
    << <<"NextSteps">> >>
    \o (IF contact_info.phones # <<>>
        THEN <<Bullet(<<IF Urgent3(q) THEN "CallRightAway" ELSE "GiveThemACall">>)>>
        ELSE IF contact_info.emails # <<>> THEN <<Bullet(<<"SendEmail">>)>>
        ELSE IF contact_info.websites # <<>> THEN <<Bullet(<<"CheckWebsite">>)>>
        ELSE <<>>)
    \o (IF Len(providers) > 1 THEN <<Bullet(<<"ReachMultiple">>)>> ELSE <<>>)
    \o <<Bullet(<<"Remember">>)>>
    \o (IF Urgent3(q) THEN <<Bullet(<<"Call911">>)>> ELSE <<>>)

\* the template with the contact section appended before the provider section
simulate_llm_response_reordered(q, context_chunks, categories, contact_info, providers, descriptions) ==
    IF "greeting" \in q.kw THEN GreetingText
    ELSE IF "capability" \in q.kw THEN CapabilitiesText
    ELSE IF context_chunks = <<>>
         THEN (IF Urgent4(q) THEN UrgentNoInfoText ELSE NoInfoText)
    ELSE JoinWith(<<NL>>,
            <<IntroLine(q, categories), <<>>>>
            \o CategoryLines(categories)
            \o ContactLines(contact_info)
            \o ProviderLines(providers)
            \o DescriptionLines(descriptions)
            \o NextStepLines(q, contact_info, providers))

\* "\n".join(response_parts)
simulate_llm_response(q, context_chunks, categories, contact_info, providers, descriptions) ==
    IF "greeting" \in q.kw THEN GreetingText
    ELSE IF "capability" \in q.kw THEN CapabilitiesText
    ELSE IF context_chunks = <<>>
         THEN (IF Urgent4(q) THEN UrgentNoInfoText ELSE NoInfoText)
    ELSE JoinWith(<<NL>>,
            <<IntroLine(q, categories), <<>>>>
            \o CategoryLines(categories)
            \o ProviderLines(providers)
            \o DescriptionLines(descriptions)
            \o ContactLines(contact_info)
            \o NextStepLines(q, contact_info, providers))

\* what the awaited ollama.chat call can do: raise, or return a text
LlmTexts ==
    { <<"a">>,
      <<BULLET, "a", NL, NL, "b", SP, SP, "c">>,
      <<"Here", COLON, NL>> \o Bullet(<<"a">>) }

LlmOutcomes ==
    {[ok |-> FALSE, text |-> <<>>]} \cup {[ok |-> TRUE, text |-> t] : t \in LlmTexts}

\* How a call ended: it returned val or raised; exc names the places where an
\* exception was raised inside it, whether it was caught there or not
Returned(v) == [st |-> "returned", val |-> v, exc |-> {}]
Caught(site, v) == [st |-> "returned", val |-> v, exc |-> {site}]
Raises(site) == [st |-> "raised", val |-> <<>>, exc |-> {site}]
NotYet == [st |-> "none", val |-> <<>>, exc |-> {}]

\* the except branch re-raising instead of building the template answer
LlmFallbackReraises(q, context_chunks) == Raises("llm")

\* the except branch of generate_single_prompt_response
LlmFallback(q, context_chunks) ==
    Caught("llm", simulate_llm_response(q, context_chunks,
                extract_categories_from_chunks(context_chunks),
                extract_contact_info(context_chunks),
                ProvidersBothRules(context_chunks, <<>>),
                Descriptions(context_chunks)))

generate_single_prompt_response(q, context_chunks, llm) ==
    IF llm.ok THEN Returned(llm.text) ELSE LlmFallback(q, context_chunks)

\* generate_answer running the extractors without its "if context_chunks" guards
generate_answer_unguarded(q, context_chunks, llm) ==
    [ answer       |-> generate_single_prompt_response(q, context_chunks, llm).val,
      sources      |-> context_chunks,
      contact_info |-> extract_contact_info(context_chunks),
      categories   |-> extract_categories_from_chunks(context_chunks),
      providers    |-> ProvidersLabelRule(context_chunks, <<>>) ]

\* the dict generate_answer returns
generate_answer(q, context_chunks, llm) ==
    [ answer       |-> generate_single_prompt_response(q, context_chunks, llm).val,
      sources      |-> context_chunks,
      contact_info |-> IF context_chunks # <<>> THEN extract_contact_info(context_chunks)
                       ELSE EmptyDict,
      categories   |-> IF context_chunks # <<>>
                       THEN extract_categories_from_chunks(context_chunks) ELSE <<>>,
      providers    |-> ProvidersLabelRule(context_chunks, <<>>) ]

\* the metadata stream_chat_response puts in its completion event
CompletionData(session_id, context_chunks) ==
    [ type         |-> "complete",
      session_id   |-> session_id,
      sources      |-> context_chunks,
      contact_info |-> IF context_chunks # <<>> THEN extract_contact_info(context_chunks)
                       ELSE EmptyDict,
      categories   |-> IF context_chunks # <<>>
                       THEN extract_categories_from_chunks(context_chunks) ELSE <<>>,
      providers    |-> ProvidersBothRules(context_chunks, <<>>) ]

-----------------------------------------------------------------------------
(* The vector store query and retrieval.                                   *)

Vec == 0..MaxVec

\* embedding <-> query_emb, in units of 0.5
Dist(a, b) == IF a >= b THEN a - b ELSE b - a

\* "AND (embedding <-> query_emb) < 0.5" of the batch query, in the same units
BatchThreshold == 1

\* the query with its WHERE clause on tenant_id left out
TenantFilterMissing(r, tenant) == TRUE

\* WHERE tenant_id = :tenant
TenantFilter(r, tenant) == r.tenant_id = tenant

\* the query with its LIMIT clause left out: every matching row is returned
MinNoLimit(a, b) == b

\* LIMIT :top_k applied to the matching rows
Min(a, b) == IF a <= b THEN a ELSE b

\* SELECT content FROM embeddings WHERE tenant_id = :tenant [AND distance < 0.5]
\* ORDER BY embedding <-> :query_emb LIMIT :top_k -- every order the database
\* may return: rows at equal distance come in any order
SqlSelect(tenant, query_emb, top_k, thresholded) ==
    LET rows == { r \in store :
                    /\ TenantFilter(r, tenant)
                    /\ (thresholded => Dist(r.embedding, query_emb) < BatchThreshold) }
        d(id) == Dist(RowOf(id).embedding, query_emb)
        ids == { r.id : r \in rows }
        n == Min(top_k, Cardinality(rows))
    IN  { s \in [1..n -> ids] :
            /\ \A i, j \in 1..n : i < j => s[i] # s[j] /\ d(s[i]) <= d(s[j])
            /\ \A id \in ids \ { s[i] : i \in 1..n } : \A i \in 1..n : d(s[i]) <= d(id) }

\* "except Exception as e: ... return []" of both retrieve_relevant_chunks
RetrievalExcept(site) == Caught(site, <<>>)

\* retrieve_relevant_chunks of the API: each way the call can end
retrieve_relevant_chunks(tenant_id, top_k) ==
    {RetrievalExcept("embed"), RetrievalExcept("store")}
    \cup { Returned(s) : s \in UNION { SqlSelect(tenant_id, v, top_k, FALSE) : v \in Vec } }

\* retrieve_relevant_chunks_batch for two queries: a list of results per query
retrieve_relevant_chunks_batch(tenant_id, top_k) ==
    LET one == UNION { SqlSelect(tenant_id, v, top_k, TRUE) : v \in Vec }
    IN  {Caught("embed", <<<<>>, <<>>>>), Caught("store", <<<<>>, <<>>>>)}
        \cup { Returned(<<a, b>>) : a \in one, b \in one }

\* characters in the content column of each passage of the catalogue
ContentLen(content) ==
    IF content = Structured THEN 180
    ELSE IF content = Bulleted THEN 60
    ELSE IF content = Prose THEN 30 ELSE 70

RECURSIVE TotalLen(_)
\* len("".join(chunks))
TotalLen(ids) ==
    IF ids = <<>> THEN 0 ELSE ContentLen(RowOf(Head(ids)).content) + TotalLen(Tail(ids))

\* "LIMIT 2" of the category-specific queries
CategoryLimit == 2
\* combined_chunks[:top_k + 2]
WidenMargin == 2
\* len("".join(chunks)) < 100
SparseChars == 100

RECURSIVE CategoryChunks(_, _)
\* cat_chunks: the rows of one LIMIT 2 query per detected category, in sequence
CategoryChunks(tenant, n) ==
    IF n = 0 THEN {<<>>}
    ELSE { a \o b : a \in CategoryChunks(tenant, n - 1),
                    b \in UNION { SqlSelect(tenant, v, CategoryLimit, FALSE) : v \in Vec } }

\* every category-specific row is kept
UniqueChunksUnchecked(cat_chunks, chunks, unique) == unique \o cat_chunks

RECURSIVE UniqueChunks(_, _, _)
\* "if chunk not in chunks and chunk not in unique_chunks": compared by content
UniqueChunks(cat_chunks, chunks, unique) ==
    IF cat_chunks = <<>> THEN unique
    ELSE LET c == RowOf(Head(cat_chunks)).content
             seen == { RowOf(id).content : id \in SeqToSet(chunks) \cup SeqToSet(unique) }
         IN  UniqueChunks(Tail(cat_chunks), chunks,
                          IF c \in seen THEN unique ELSE Append(unique, Head(cat_chunks)))

\* enhanced_query != original_query
Enhanced(q) == q.cats # <<>> \/ q.lookup

\* what a call that reached its return statement leaves: the list returned,
\* with the list of the first query, the list after the widening stage and
\* whether that stage ran
AppReturned(val, first, widening, widened) ==
    [st |-> "returned", val |-> val, exc |-> {}, first |-> first,
     widening |-> widening, widened |-> widened]

\* the last stage: retry with the original query when the result is sparse
AppRawFallback(q, tenant, top_k, first, widening, chunks) ==
    IF TotalLen(chunks) < SparseChars /\ Enhanced(q)
    THEN {RetrievalExcept("embed_original"), RetrievalExcept("store")}
         \cup { AppReturned(IF TotalLen(orig) > TotalLen(chunks) THEN orig ELSE chunks,
                            first, widening, chunks) :
                  orig \in UNION { SqlSelect(tenant, v, top_k, FALSE) : v \in Vec } }
    ELSE {AppReturned(chunks, first, widening, chunks)}

\* the middle stage: category-specific queries when categories were detected
\* and the first result holds no normalized passage
AppWiden(q, tenant, top_k, chunks) ==
    LET has_normalized_data ==
            \E i \in 1..Len(chunks) :
                \/ HasLabel(RowOf(chunks[i]).content, "CATEGORIES:")
                \/ HasLabel(RowOf(chunks[i]).content, "CONTACT INFORMATION:")
    IN  IF q.cats # <<>> /\ ~has_normalized_data
        THEN {RetrievalExcept("embed_categories"), RetrievalExcept("store")}
             \cup UNION { AppRawFallback(q, tenant, top_k, chunks, TRUE,
                              IF cat_chunks = <<>> THEN chunks
                              ELSE Take(chunks \o UniqueChunks(cat_chunks, chunks, <<>>),
                                        top_k + WidenMargin)) :
                          cat_chunks \in CategoryChunks(tenant, Len(q.cats)) }
        ELSE AppRawFallback(q, tenant, top_k, chunks, FALSE, chunks)

\* retrieve_relevant_chunks of the Streamlit app: the first embedding is
\* computed before the try block, everything after it inside
app_retrieve_relevant_chunks(q, tenant_id, top_k) ==
    {Raises("embed"), RetrievalExcept("store")}
    \cup UNION { AppWiden(q, tenant_id, top_k, chunks) :
                 chunks \in UNION { SqlSelect(tenant_id, v, top_k, FALSE) : v \in Vec } }

-----------------------------------------------------------------------------
(* Ingestion: the state of a process in which no document is being         *)
(* chunked and no model or client was initialized yet.                     *)

\* script runs of the Streamlit app that may be active in one process
Workers == {"w1", "w2", "w3"}

NoDoc == [impl |-> "none"]
IdleWorker == [pc |-> "idle", extractor |-> 0]
NoLoads == [extractor |-> 0, client |-> 0]

IngestIdle ==
    /\ doc = NoDoc
    /\ chunked = NotYet
    /\ workers = [w \in Workers |-> IdleWorker]
    /\ loads = NoLoads

\* no extract_contact_info call was made
ContactIdle == passages = <<>> /\ extracted = NotYet

\* no chat request is in flight and the chat tables are empty
SessionIdle == sessions = {} /\ messages = {} /\ handlers = <<>>

\* the upload wizard was never opened
WizardIdle == wizard = <<>> /\ uploader = "none" /\ page = "none" /\ saved = <<>>

\* no document request is in flight and the document tables are empty
DocsIdle == documents = {} /\ embeddings = {} /\ upload = <<>>

RestIdle == ContactIdle /\ SessionIdle /\ WizardIdle /\ DocsIdle

-----------------------------------------------------------------------------
(* The requests.                                                           *)

\* top_k=4 of the chat endpoints and of the app
DefaultTopK == 4
TopKs == {1, 2, DefaultTopK}

\* stream: stream_chat_response; query: authenticated_chat_query;
\* batch: retrieve_relevant_chunks_batch; app: the Ask button of query_page
Entries == {"stream", "query", "batch", "app"}

ErrorFrame == [type |-> "error", message |-> "Failed to process chat query"]
ChunkFrame(chunk) == [type |-> "chunk", content |-> chunk]

\* the one chunk generate_streaming_response yields from its except branch
ApologyText == <<"Apology">>

\* a bare "except:", which catches everything thrown into the generator
ExceptAnything(e) == TRUE
\* a handler that catches nothing, so that the exception leaves the generator
ExceptNothing(e) == FALSE

\* "except Exception" catches the failures of the embedding backend, of the
\* database and of the LLM; CancelledError and GeneratorExit, which a consumer
\* that disconnects throws into the generator, derive from BaseException only
ExceptException(e) == e \notin {"CancelledError", "GeneratorExit"}

Fresh ==
    /\ pc = "embed"
    /\ client = "connected"
    /\ retr = NotYet
    /\ answer = NotYet
    /\ pending = <<>>
    /\ frames = <<>>
    /\ resp = NotYet
    /\ raised = {}
    /\ IngestIdle
    /\ RestIdle

Init ==
    /\ store \in SUBSET AllRows
    /\ req \in [entry : Entries, tenant : Tenants, q : Questions, top_k : TopKs]
    /\ Fresh

\* the retrieval of stream_chat_response and of authenticated_chat_query; an
\* exception leaving it is handled by the except branch of the caller
ApiRetrieve ==
    /\ pc = "embed"
    /\ req.entry \in {"stream", "query"}
    /\ \E out \in retrieve_relevant_chunks(req.tenant, req.top_k) :
          /\ retr' = out
          /\ raised' = raised \cup out.exc
          /\ IF out.st = "returned"
             THEN pc' = "llm" /\ UNCHANGED <<frames, resp>>
             ELSE /\ pc' = "done"
                  /\ frames' = IF req.entry = "stream" THEN Append(frames, ErrorFrame)
                                ELSE frames
                  /\ resp' = IF req.entry = "query" THEN Returned([status |-> 500])
                              ELSE resp
    /\ UNCHANGED <<store, req, client, answer, pending>>
    /\ UNCHANGED <<ingestVars, restVars>>

\* generate_streaming_response up to its first yield: the awaited synthesis,
\* then the chunks of the full response, or the apology of the except branch
StreamSynthesize ==
    /\ pc = "llm"
    /\ req.entry = "stream"
    /\ \E llm \in LlmOutcomes :
          LET out == generate_single_prompt_response(req.q, Contents(retr.val), llm)
          IN  /\ answer' = out
              /\ raised' = raised \cup out.exc
              /\ pending' = IF out.st = "returned" THEN StreamChunks(out.val)
                             ELSE <<ApologyText>>
    /\ pc' = "stream"
    /\ UNCHANGED <<store, req, client, retr, frames, resp>>
    /\ UNCHANGED <<ingestVars, restVars>>

\* one "yield" of a chunk, wrapped by stream_chat_response in a chunk event
YieldChunk ==
    /\ pc = "stream"
    /\ pending # <<>>
    /\ frames' = Append(frames, ChunkFrame(Head(pending)))
    /\ pending' = Tail(pending)
    /\ UNCHANGED <<store, req, pc, client, retr, answer, resp, raised>>
    /\ UNCHANGED <<ingestVars, restVars>>

\* the completion event, after the last chunk
YieldComplete ==
    /\ pc = "stream"
    /\ pending = <<>>
    /\ frames' = Append(frames, CompletionData("s1", Contents(retr.val)))
    /\ pc' = "complete"
    /\ UNCHANGED <<store, req, client, retr, answer, pending, resp, raised>>
    /\ UNCHANGED <<ingestVars, restVars>>

\* after the completion event: load the session, add the assistant message,
\* commit; a failure of the add or of the commit reaches the except branch
SaveAssistantMessage ==
    /\ pc = "complete"
    /\ \E db \in {"saved", "no_session", "fails"} :
          IF db = "fails"
          THEN /\ raised' = raised \cup {"save"}
               /\ frames' = IF ExceptException("SQLAlchemyError")
                             THEN Append(frames, ErrorFrame) ELSE frames
          ELSE UNCHANGED <<frames, raised>>
    /\ pc' = "done"
    /\ UNCHANGED <<store, req, client, retr, answer, pending, resp>>
    /\ UNCHANGED <<ingestVars, restVars>>

\* the consumer disconnects while the generator is suspended (at an await or
\* at a yield): the exception thrown into it passes every "except Exception"
\* and the generator ends; were it caught, the error event would follow
Disconnect ==
    /\ req.entry = "stream"
    /\ client = "connected"
    /\ pc \in {"embed", "llm", "stream", "complete"}
    /\ client' = "disconnected"
    /\ IF ExceptException("CancelledError")
       THEN frames' = Append(frames, ErrorFrame) /\ pc' = "done"
       ELSE frames' = frames /\ pc' = "closed"
    /\ UNCHANGED <<store, req, retr, answer, pending, resp, raised>>
    /\ UNCHANGED <<ingestVars, restVars>>

\* authenticated_chat_query after retrieval: generate_answer, then the two
\* messages and the commit; any exception becomes the HTTP 500 response
QueryAnswer ==
    /\ pc = "llm"
    /\ req.entry = "query"
    /\ \E llm \in LlmOutcomes, db \in {"saved", "fails"} :
          LET out == generate_single_prompt_response(req.q, Contents(retr.val), llm)
              data == generate_answer(req.q, Contents(retr.val), llm)
          IN  /\ answer' = out
              /\ raised' = raised \cup out.exc \cup (IF db = "fails" THEN {"save"} ELSE {})
              /\ resp' = IF out.st = "returned" /\ db = "saved"
                          THEN Returned([status |-> 200] @@ data)
                          ELSE Returned([status |-> 500])
    /\ pc' = "done"
    /\ UNCHANGED <<store, req, client, retr, pending, frames>>
    /\ UNCHANGED <<ingestVars, restVars>>

\* a direct call of retrieve_relevant_chunks_batch
BatchRetrieve ==
    /\ pc = "embed"
    /\ req.entry = "batch"
    /\ \E out \in retrieve_relevant_chunks_batch(req.tenant, req.top_k) :
          /\ resp' = out
          /\ raised' = raised \cup out.exc
    /\ pc' = "done"
    /\ UNCHANGED <<store, req, client, retr, answer, pending, frames>>
    /\ UNCHANGED <<ingestVars, restVars>>

\* query_page: retrieval; an exception is shown as "An error occurred", an
\* empty result as the "No relevant context" warning, and both end the run
AppRetrieve ==
    /\ pc = "embed"
    /\ req.entry = "app"
    /\ \E out \in app_retrieve_relevant_chunks(req.q, req.tenant, req.top_k) :
          /\ retr' = out
          /\ raised' = raised \cup out.exc
          /\ IF out.st = "raised"
             THEN pc' = "done" /\ resp' = Returned([shown |-> "error"])
             ELSE IF out.val = <<>>
             THEN pc' = "done" /\ resp' = Returned([shown |-> "warning"])
             ELSE pc' = "llm" /\ resp' = resp
    /\ UNCHANGED <<store, req, client, answer, pending, frames>>
    /\ UNCHANGED <<ingestVars, restVars>>

\* what the text2text pipeline of the app can do: raise, return a usable
\* text, or return a text the code rejects (a follow-up question, too short)
AppGeneratorOutcomes == {"raises", "text", "rejected"}

NoProviderText == <<"NoProviderInformationFound">>

\* generate_answer of the app: a text
app_generate_answer(q, context_chunks, gen) ==
    IF context_chunks = <<>> THEN NoProviderText
    ELSE IF gen = "raises" THEN <<"RawContext">>
    ELSE IF gen = "rejected" THEN <<"StructuredResponse">>
    ELSE <<"GeneratedText">>

\* query_page: the answer shown for a non-empty context
AppAnswer ==
    /\ pc = "llm"
    /\ req.entry = "app"
    /\ \E gen \in AppGeneratorOutcomes :
          /\ answer' = Returned(app_generate_answer(req.q, Contents(retr.val), gen))
          /\ resp' = Returned([shown |-> "answer"])
          /\ raised' = raised \cup (IF gen = "raises" THEN {"llm"} ELSE {})
    /\ pc' = "done"
    /\ UNCHANGED <<store, req, client, retr, pending, frames>>
    /\ UNCHANGED <<ingestVars, restVars>>

Next ==
    \/ ApiRetrieve
    \/ StreamSynthesize
    \/ YieldChunk
    \/ YieldComplete
    \/ SaveAssistantMessage
    \/ Disconnect
    \/ QueryAnswer
    \/ BatchRetrieve
    \/ AppRetrieve
    \/ AppAnswer

Spec == Init /\ [][Next]_vars

-----------------------------------------------------------------------------
(* generate_streaming_response applied to every short answer text.         *)

Alphabet == {SP, NL, BULLET, "a", "b"}

Texts == UNION { [1..n -> Alphabet] : n \in 0..MaxLen }

StreamRequest ==
    [entry |-> "stream", tenant |-> "A", q |-> Q("list of clinics nearby", {}, <<>>, FALSE),
     top_k |-> DefaultTopK]

\* the generator holds full_response, nothing was retrieved
InitStream ==
    /\ store = {}
    /\ req = StreamRequest
    /\ pc = "synthesized"
    /\ client = "connected"
    /\ retr = Returned(<<>>)
    /\ answer \in { Returned(t) : t \in Texts }
    /\ pending = <<>>
    /\ frames = <<>>
    /\ resp = NotYet
    /\ raised = {}
    /\ IngestIdle
    /\ RestIdle

\* the loops of generate_streaming_response over full_response
StartStream ==
    /\ pc = "synthesized"
    /\ pending' = StreamChunks(answer.val)
    /\ pc' = "stream"
    /\ UNCHANGED <<store, req, client, retr, answer, frames, resp, raised>>
    /\ UNCHANGED <<ingestVars, restVars>>

NextStream ==
    \/ StartStream
    \/ YieldChunk
    \/ YieldComplete

SpecStream == InitStream /\ [][NextStream]_vars

-----------------------------------------------------------------------------
(* Properties.                                                             *)

\* ---------------------------------------------------------------------
\* chunk_text.  A text is a sequence of words separated by single spaces;
\* a word is its number in the document and the periods written after it.
\* A chunk is a text again.

\* the sentences of a generated document, at most
MaxSentences == 4

\* chunks = [chunk for chunk in chunks if len(chunk.split()) >= 10]
MinChunkWords == 10

\* overlap_words: int = 50
DefaultOverlap == 50

\* chunk_size=300 of the app's chunk_text
AppDefaultChunkSize == 300

Word(id, dots) == [w |-> id, dots |-> dots]

RECURSIVE TextFrom(_, _, _)
\* the text whose sentences have the lengths lens, words numbered from
\* first; a period closes every sentence but the last, and the last if dot
TextFrom(lens, first, dot) ==
    IF lens = <<>> THEN <<>>
    ELSE [i \in 1..Head(lens) |->
             Word(first + i - 1,
                  IF i = Head(lens) /\ (Len(lens) > 1 \/ dot) THEN 1 ELSE 0)]
         \o TextFrom(Tail(lens), first + Head(lens), dot)

\* n words in sentences of slen words, the rest in a last shorter sentence
UniformLens(n, slen) ==
    [k \in 1..((n + slen - 1) \div slen) |->
        IF k * slen <= n THEN slen ELSE n - (k - 1) * slen]

\* the sentence lengths of the generated documents
SentenceLens == {2, 9, 20}

\* documents chunked with an explicit target size
SizedDocs ==
    { [impl |-> i, text |-> TextFrom(lens, 1, dot), has_size |-> TRUE,
       chunk_size |-> size, overlap_words |-> k] :
        i \in {"api", "app"},
        lens \in UNION { [1..n -> SentenceLens] : n \in 1..MaxSentences },
        dot \in BOOLEAN, size \in {12, 16}, k \in {0, 3} }

\* documents.py calls chunk_text(text): no target size, the default overlap
AdaptiveDocs ==
    { [impl |-> "api", text |-> TextFrom(UniformLens(n, 100), 1, TRUE),
       has_size |-> FALSE, chunk_size |-> 0, overlap_words |-> DefaultOverlap] :
        n \in {20, 499, 500, 1999, 2000, 2400, 9999, 10000} }

\* the app's upload calls chunk_text(full_text): both defaults
AppDefaultDocs ==
    { [impl |-> "app", text |-> TextFrom(UniformLens(n, 100), 1, TRUE),
       has_size |-> TRUE, chunk_size |-> AppDefaultChunkSize,
       overlap_words |-> DefaultOverlap] : n \in {300, 640} }

\* a line of dot leaders, "Contents . . . . .": one word and n periods
\* standing alone, then a closing sentence of m words
DotLeaderText(n, m) ==
    <<Word(1, 0)>> \o [i \in 1..n |-> Word(0, 1)]
    \o (IF m = 0 THEN <<>> ELSE TextFrom(<<m>>, 2, TRUE))

\* documents.py calls chunk_text(text) on such text
DotLeaderDocs ==
    { [impl |-> "api", text |-> DotLeaderText(n, m), has_size |-> FALSE,
       chunk_size |-> 0, overlap_words |-> DefaultOverlap] :
        n \in {150, 200}, m \in {0, 9} }

Docs == SizedDocs \cup AdaptiveDocs \cup AppDefaultDocs \cup DotLeaderDocs

\* the thresholds compared with <= instead of <
AdaptiveChunkSizeInclusive(text_length) ==
    IF text_length <= 500 THEN 150
    ELSE IF text_length <= 2000 THEN 300
    ELSE IF text_length <= 10000 THEN 500
    ELSE 800

\* adaptive chunk sizing based on document length
AdaptiveChunkSize(text_length) ==
    IF text_length < 500 THEN 150
    ELSE IF text_length < 2000 THEN 300
    ELSE IF text_length < 10000 THEN 500
    ELSE 800

\* the positions at which a piece of text.split('.') ends
SentenceEnds(text) ==
    { i \in 1..Len(text) : text[i].dots > 0 \/ i = Len(text) }

\* the letters of a word that has some: a word of periods alone (w = 0)
\* leaves nothing in the piece it closes
Lettered(piece) == SelectSeq(piece, LAMBDA t : t.w # 0)

\* text.split('.'), each piece stripped, the empty pieces skipped
Sentences(text) ==
    LET ends == SentenceEnds(text)
        EndOf(k) == CHOOSE e \in ends : Cardinality({ x \in ends : x <= e }) = k
        StartOf(k) == IF k = 1 THEN 1 ELSE EndOf(k - 1) + 1
        pieces == [k \in 1..Cardinality(ends) |->
                      Lettered([i \in 1..(EndOf(k) - StartOf(k) + 1) |->
                                   Word(text[StartOf(k) + i - 1].w, 0)])]
    IN  SelectSeq(pieces, LAMBDA piece : piece # <<>>)

\* s + "."
AddDot(s) == [s EXCEPT ![Len(s)].dots = @ + 1]

\* prev_words[-overlap_words:]
LastWords(prev_words, k) == SubSeq(prev_words, Len(prev_words) - k + 1, Len(prev_words))

RECURSIVE SentenceLoop(_, _, _, _, _, _)
\* the loop over the sentences and the append of the final chunk
SentenceLoop(sentences, chunk_size, overlap_words, chunks, current_chunk, current_word_count) ==
    IF sentences = <<>>
    THEN (IF current_chunk # <<>> THEN Append(chunks, current_chunk) ELSE chunks)
    ELSE
      LET sentence == Head(sentences)
          sentence_words == Len(sentence)
      IN  IF current_word_count + sentence_words > chunk_size /\ current_chunk # <<>>
          THEN LET prev_words == current_chunk
                   overlap_text == IF Len(prev_words) > overlap_words
                                   THEN LastWords(prev_words, overlap_words)
                                   ELSE prev_words
                   started == AddDot(overlap_text) \o AddDot(sentence)
               IN  IF overlap_words > 0
                   THEN SentenceLoop(Tail(sentences), chunk_size, overlap_words,
                                     Append(chunks, current_chunk), started, Len(started))
                   ELSE SentenceLoop(Tail(sentences), chunk_size, overlap_words,
                                     Append(chunks, current_chunk), AddDot(sentence),
                                     sentence_words)
          ELSE SentenceLoop(Tail(sentences), chunk_size, overlap_words, chunks,
                            IF current_chunk # <<>>
                            THEN AddDot(current_chunk) \o AddDot(sentence)
                            ELSE AddDot(sentence),
                            current_word_count + sentence_words)

\* the fallback runs only when a chunk exceeds twice the target
NeedsFallbackLoose(chunks, chunk_size) ==
    chunks = <<>> \/ \E i \in 1..Len(chunks) : Len(chunks[i]) > 2 * chunk_size

\* not chunks or any(len(chunk.split()) > chunk_size * 1.5 for chunk in chunks)
NeedsFallback(chunks, chunk_size) ==
    chunks = <<>> \/ \E i \in 1..Len(chunks) : 2 * Len(chunks[i]) > 3 * chunk_size

\* [" ".join(words[i:i+chunk_size]) for i in range(0, len(words), step)], step > 0
WindowChunks(words, chunk_size, step) ==
    [k \in 1..((Len(words) + step - 1) \div step) |->
        SubSeq(words, (k - 1) * step + 1, Min((k - 1) * step + chunk_size, Len(words)))]

\* what a call of chunk_text leaves: the list it returns, with the target
\* size it used and the return statement it took
Chunked(val, chunk_size, path) ==
    [st |-> "returned", val |-> val, exc |-> {}, size |-> chunk_size, path |-> path]

\* range() arg 3 must not be zero
ChunkRaises(chunk_size) ==
    [st |-> "raised", val |-> <<>>, exc |-> {"range"}, size |-> chunk_size, path |-> "windows"]

\* the fallback return: range() raises on a zero step and is empty on a
\* negative one
Fallback(words, chunk_size, overlap_words) ==
    IF chunk_size = overlap_words THEN ChunkRaises(chunk_size)
    ELSE IF chunk_size < overlap_words THEN Chunked(<<>>, chunk_size, "windows")
    ELSE Chunked(WindowChunks(words, chunk_size, chunk_size - overlap_words),
                 chunk_size, "windows")

\* the shared body of both chunk_text functions after the size is known;
\* filtered tells whether the chunks under 10 words are dropped at the end
ChunkBody(text, chunk_size, overlap_words, filtered) ==
    IF Len(text) <= chunk_size THEN Chunked(<<text>>, chunk_size, "whole")
    ELSE
      LET chunks == SentenceLoop(Sentences(text), chunk_size, overlap_words, <<>>, <<>>, 0)
      IN  IF NeedsFallback(chunks, chunk_size)
          THEN Fallback(text, chunk_size, overlap_words)
          ELSE Chunked(IF filtered
                       THEN SelectSeq(chunks, LAMBDA c : Len(c) >= MinChunkWords)
                       ELSE chunks,
                       chunk_size, "sentences")

\* chunk_text of the API
chunk_text(text, has_size, chunk_size, overlap_words) ==
    ChunkBody(text, IF has_size THEN chunk_size ELSE AdaptiveChunkSize(Len(text)),
              overlap_words, TRUE)

\* chunk_text of the app: the target is always given, nothing is filtered
app_chunk_text(text, chunk_size, overlap_words) ==
    ChunkBody(text, chunk_size, overlap_words, FALSE)

\* the chat side of the process while a document is chunked
ChatIdle ==
    /\ store = {}
    /\ req = StreamRequest
    /\ pc = "done"
    /\ client = "connected"
    /\ retr = NotYet
    /\ answer = NotYet
    /\ pending = <<>>
    /\ frames = <<>>
    /\ resp = NotYet
    /\ raised = {}

InitChunk ==
    /\ ChatIdle
    /\ doc \in Docs
    /\ chunked = NotYet
    /\ workers = [w \in Workers |-> IdleWorker]
    /\ loads = NoLoads
    /\ RestIdle

\* POST /documents/upload: chunks = chunk_text(text)
ApiChunkText ==
    /\ doc.impl = "api" /\ chunked = NotYet
    /\ chunked' = chunk_text(doc.text, doc.has_size, doc.chunk_size, doc.overlap_words)
    /\ UNCHANGED <<doc, workers, loads>>
    /\ UNCHANGED <<chatVars, restVars>>

\* the app's upload pages: chunks = chunk_text(final_text, chunk_size=chunk_size)
AppChunkText ==
    /\ doc.impl = "app" /\ chunked = NotYet
    /\ chunked' = app_chunk_text(doc.text, doc.chunk_size, doc.overlap_words)
    /\ UNCHANGED <<doc, workers, loads>>
    /\ UNCHANGED <<chatVars, restVars>>

NextChunk ==
    \/ ApiChunkText
    \/ AppChunkText

SpecChunk == InitChunk /\ [][NextChunk]_vars

\* ---------------------------------------------------------------------
\* The app's model and client objects.  Each Streamlit session runs its
\* script in a thread of the one server process; a worker is such a thread.
\* loads counts the constructions in the process, an extractor is known by
\* the number of its construction.

\* the calls of extract_structured_data_llm in a run, at most
MaxCalls == 3

\* upload.py / upload_workflow.py: extract_structured_data_llm(text, file_type)
\* is entered
CallExtract(w) ==
    /\ workers[w].pc = "idle"
    /\ loads.extractor + Cardinality({ v \in Workers : workers[v].pc = "construct" }) < MaxCalls
    /\ workers' = [workers EXCEPT ![w].pc = "construct"]
    /\ UNCHANGED <<loads, doc, chunked>>
    /\ UNCHANGED <<chatVars, restVars>>

\* get_llm_extractor: return extractor_class(); __init__ loads tokenizer,
\* model and pipeline
get_llm_extractor(w) ==
    /\ workers[w].pc = "construct"
    /\ loads' = [loads EXCEPT !.extractor = @ + 1]
    /\ workers' = [workers EXCEPT ![w] = [pc |-> "extract", extractor |-> loads.extractor + 1]]
    /\ UNCHANGED <<doc, chunked>>
    /\ UNCHANGED <<chatVars, restVars>>

\* extractor.extract_structured_data(text, file_type) returns; the local
\* extractor goes out of scope
ExtractReturn(w) ==
    /\ workers[w].pc = "extract"
    /\ workers' = [workers EXCEPT ![w] = IdleWorker]
    /\ UNCHANGED <<loads, doc, chunked>>
    /\ UNCHANGED <<chatVars, restVars>>

\* the app's embed functions are entered: host = get_ollama_client()
CallEmbed(w) ==
    /\ workers[w].pc = "idle"
    /\ workers' = [workers EXCEPT ![w].pc = "client"]
    /\ UNCHANGED <<loads, doc, chunked>>
    /\ UNCHANGED <<chatVars, restVars>>

\* @st.cache_resource get_ollama_client(): the body runs under the cache's
\* lock when the cache has no entry, later calls get the cached value
get_ollama_client(w) ==
    /\ workers[w].pc = "client"
    /\ loads' = [loads EXCEPT !.client = IF @ = 0 THEN 1 ELSE @]
    /\ workers' = [workers EXCEPT ![w] = IdleWorker]
    /\ UNCHANGED <<doc, chunked>>
    /\ UNCHANGED <<chatVars, restVars>>

InitExtractor ==
    /\ ChatIdle
    /\ IngestIdle
    /\ RestIdle

NextExtractor ==
    \E w \in Workers :
        \/ CallExtract(w)
        \/ get_llm_extractor(w)
        \/ ExtractReturn(w)
        \/ CallEmbed(w)
        \/ get_ollama_client(w)

SpecExtractor == InitExtractor /\ [][NextExtractor]_vars

\* ---------------------------------------------------------------------
\* extract_contact_info on its own, over lists of passages.

\* the passages of a list, at most
MaxPassages == 3

\* a line for which is_malformed_line holds, e.g.
\* "Email: help@city.gov&network_id=5" ('network_id=' is a noise marker)
Noise(lab, items) == [lab |-> lab, items |-> items, malformed |-> TRUE]

\* a labeled block whose only line holds a 7-digit number
EmptyBlock ==
    << Ln("CONTACT INFORMATION:", <<>>),
       Ln("Phone:", <<"123-4567">>) >>

\* the same block followed by a line of prose with an address to write to
BlockWithProse ==
    << Ln("CONTACT INFORMATION:", <<>>),
       Ln("Phone:", <<"123-4567">>),
       Ln("", <<"mail", "help@city.gov">>) >>

\* a labeled block whose Email: line carries a query-parameter fragment
NoisyBlock ==
    << Ln("CONTACT INFORMATION:", <<>>),
       Noise("Email:", <<"help@city.gov">>) >>

\* prose whose only line is a URL with a query-parameter fragment
NoisyProse == << Noise("", <<"https://acme.org">>) >>

ContactPassages ==
    {Structured, Prose, Bulleted, EmptyBlock, BlockWithProse, NoisyBlock, NoisyProse}

InitContact ==
    /\ ChatIdle /\ IngestIdle
    /\ SessionIdle /\ WizardIdle /\ DocsIdle
    /\ passages \in UNION { [1..n -> ContactPassages] : n \in 0..MaxPassages }
    /\ extracted = NotYet

\* contact_info = extract_contact_info(context_chunks)
ExtractContacts ==
    /\ extracted = NotYet
    /\ extracted' = Returned(extract_contact_info(passages))
    /\ UNCHANGED <<passages, chatVars, ingestVars, sessionVars, wizardVars, docVars>>

NextContact == ExtractContacts

SpecContact == InitContact /\ [][NextContact]_vars

\* ---------------------------------------------------------------------
\* The chat endpoints and the chat_sessions table.  Each request has its
\* own database session (get_db); what it adds is seen by the queries of
\* the other requests once it is committed.

Handlers == {"h1", "h2"}

\* uuid.uuid4() as drawn by request h for a row: unlike any other value
Uuid(h, what) == <<"uuid4", h, what>>

\* session_id = str(uuid.uuid4()) as drawn by request h
NewSessionId(h) == (("h1" :> "uuid-h1") @@ ("h2" :> "uuid-h2"))[h]

\* ChatRequest.session_id is Optional: "none" stands for its absence
RequestSessionIds == {"none", "s1"}

\* the arguments of a chat request; allowed is the verdict of
\* check_widget_cors, consulted by the public endpoint alone
ChatCalls ==
    [entry : {"query", "stream"}, tenant : Tenants, session_id : RequestSessionIds,
     allowed : {TRUE}]
    \cup [entry : {"public"}, tenant : Tenants, session_id : RequestSessionIds,
          allowed : BOOLEAN]

NoResponse == [status |-> 0]

\* a request that has entered its endpoint: no local is bound, nothing is
\* pending in its database session
Entered(call) ==
    [call |-> call, pc |-> "start", session_id |-> "none", chat_session |-> <<>>,
     pending |-> {}, resp |-> NoResponse, exc |-> {}]

\* db.query(ChatSession).filter(session_id == ..., tenant_id == ...)
SessionRows(session_id, tenant_id) ==
    { r \in sessions : r.session_id = session_id /\ r.tenant_id = tenant_id }

\* ChatSession(id=uuid.uuid4(), tenant_id=tenant_id, session_id=session_id)
ChatSessionRow(h, tenant_id, session_id) ==
    [id |-> Uuid(h, "session"), tenant_id |-> tenant_id, session_id |-> session_id]

\* ChatMessage(id=uuid.uuid4(), session_id=chat_session.id, ...)
ChatMessageRow(h, chat_session, tenant_id, message_type) ==
    [id |-> Uuid(h, message_type), session_id |-> chat_session, tenant_id |-> tenant_id,
     message_type |-> message_type]

\* the except branches: HTTPException / JSONResponse with status 500; the
\* database session is closed with what was pending
Failed(hd, exc) ==
    [hd EXCEPT !.pc = "done", !.pending = {}, !.resp = [status |-> 500],
               !.exc = @ \cup {exc}]

\* "get or create session": request.session_id or str(uuid.uuid4()),
\* get_cached_session(...).first(), and db.add(chat_session) when no row was
\* found.  The outcomes, as <<value of chat_session.id, rows added>>.
GetOrCreate(h, tenant_id, session_id) ==
    IF SessionRows(session_id, tenant_id) # {}
    THEN { <<r.id, {}>> : r \in SessionRows(session_id, tenant_id) }
    ELSE { <<Uuid(h, "session"), {ChatSessionRow(h, tenant_id, session_id)}>> }

\* the session id the request works with
EffectiveSessionId(h) ==
    IF handlers[h].call.session_id = "none" THEN NewSessionId(h)
    ELSE handlers[h].call.session_id

\* authenticated_chat_query up to its first await that suspends:
\* the session is looked up and, if absent, added but not committed
QueryGetOrCreate(h) ==
    /\ handlers[h].pc = "start" /\ handlers[h].call.entry = "query"
    /\ \E out \in GetOrCreate(h, handlers[h].call.tenant, EffectiveSessionId(h)) :
          handlers' = [handlers EXCEPT ![h].pc = "answer",
                                       ![h].session_id = EffectiveSessionId(h),
                                       ![h].chat_session = out[1],
                                       ![h].pending = out[2]]
    /\ UNCHANGED <<sessions, messages>>
    /\ UNCHANGED <<chatVars, ingestVars, contactVars, wizardVars, docVars>>

\* await retrieve_relevant_chunks(...); await generate_answer(...)
QueryAwaitAnswer(h) ==
    /\ handlers[h].pc = "answer"
    /\ \E ok \in BOOLEAN :
          handlers' = [handlers EXCEPT ![h] =
                          IF ok THEN [@ EXCEPT !.pc = "commit"] ELSE Failed(@, "answer")]
    /\ UNCHANGED <<sessions, messages>>
    /\ UNCHANGED <<chatVars, ingestVars, contactVars, wizardVars, docVars>>

\* batch_add_messages(db, [user_message, assistant_message]); db.commit()
QueryCommit(h) ==
    /\ handlers[h].pc = "commit"
    /\ \E ok \in BOOLEAN :
          IF ok
          THEN /\ sessions' = sessions \cup handlers[h].pending
               /\ messages' = messages \cup
                     { ChatMessageRow(h, handlers[h].chat_session,
                                      handlers[h].call.tenant, t) :
                         t \in {"user", "assistant"} }
               /\ handlers' = [handlers EXCEPT
                                 ![h].pc = "done", ![h].pending = {},
                                 ![h].resp = [status |-> 200,
                                              session_id |-> handlers[h].session_id]]
          ELSE /\ handlers' = [handlers EXCEPT ![h] = Failed(@, "commit")]
               /\ UNCHANGED <<sessions, messages>>
    /\ UNCHANGED <<chatVars, ingestVars, contactVars, wizardVars, docVars>>

\* stream_chat_query: no await suspends between the lookup and the two
\* commits; the session row is committed before the user message
StreamGetOrCreate(h) ==
    /\ handlers[h].pc = "start" /\ handlers[h].call.entry = "stream"
    /\ \E out \in GetOrCreate(h, handlers[h].call.tenant, EffectiveSessionId(h)) :
       \E session_ok, message_ok \in BOOLEAN :
          /\ sessions' = IF session_ok THEN sessions \cup out[2] ELSE sessions
          /\ messages' = IF session_ok /\ message_ok
                         THEN messages \cup
                                {ChatMessageRow(h, out[1], handlers[h].call.tenant, "user")}
                         ELSE messages
          /\ handlers' = [handlers EXCEPT ![h] =
                IF session_ok /\ message_ok
                THEN [@ EXCEPT !.pc = "streaming",
                               !.session_id = EffectiveSessionId(h),
                               !.chat_session = out[1],
                               !.resp = [status |-> 200,
                                         session_id |-> EffectiveSessionId(h)]]
                ELSE Failed(@, "commit")]
    /\ UNCHANGED <<chatVars, ingestVars, contactVars, wizardVars, docVars>>

\* the end of stream_chat_response: the session is looked up again by
\* (session_id, tenant_id) and the assistant message attached to the row
\* first() returns
StreamSaveAssistant(h) ==
    /\ handlers[h].pc = "streaming"
    /\ LET rows == SessionRows(handlers[h].session_id, handlers[h].call.tenant)
       IN  IF rows = {} THEN UNCHANGED messages
           ELSE \E r \in rows :
                   messages' = messages \cup
                       {ChatMessageRow(h, r.id, handlers[h].call.tenant, "assistant")}
    /\ handlers' = [handlers EXCEPT ![h].pc = "done"]
    /\ UNCHANGED sessions
    /\ UNCHANGED <<chatVars, ingestVars, contactVars, wizardVars, docVars>>

\* chat_query: if not check_widget_cors(request, tenant_id, db): 403
PublicCors(h) ==
    /\ handlers[h].pc = "start" /\ handlers[h].call.entry = "public"
    /\ handlers' = [handlers EXCEPT ![h] =
          IF handlers[h].call.allowed THEN [@ EXCEPT !.pc = "session"]
          ELSE [@ EXCEPT !.pc = "done", !.resp = [status |-> 403]]]
    /\ UNCHANGED <<sessions, messages>>
    /\ UNCHANGED <<chatVars, ingestVars, contactVars, wizardVars, docVars>>

\* chat_query: get or create session
PublicGetOrCreate(h) ==
    /\ handlers[h].pc = "session"
    /\ \E out \in GetOrCreate(h, handlers[h].call.tenant, EffectiveSessionId(h)) :
          handlers' = [handlers EXCEPT ![h].pc = "user_message",
                                       ![h].session_id = EffectiveSessionId(h),
                                       ![h].chat_session = out[1],
                                       ![h].pending = out[2]]
    /\ UNCHANGED <<sessions, messages>>
    /\ UNCHANGED <<chatVars, ingestVars, contactVars, wizardVars, docVars>>

\* chat_query: user_message = ChatMessage(..., content=request.message).
\* request is the starlette Request of the endpoint (the body is
\* chat_request): it has no attribute message, the AttributeError is caught
\* by "except Exception" and answered with status 500
PublicUserMessage(h) ==
    /\ handlers[h].pc = "user_message"
    /\ handlers' = [handlers EXCEPT ![h] = Failed(@, "AttributeError")]
    /\ UNCHANGED <<sessions, messages>>
    /\ UNCHANGED <<chatVars, ingestVars, contactVars, wizardVars, docVars>>

InitSession ==
    /\ ChatIdle /\ IngestIdle
    /\ ContactIdle /\ WizardIdle /\ DocsIdle
    /\ sessions = {}
    /\ messages = {}
    /\ handlers \in [Handlers -> { Entered(call) : call \in ChatCalls }]

NextSession ==
    \E h \in Handlers :
        \/ QueryGetOrCreate(h)
        \/ QueryAwaitAnswer(h)
        \/ QueryCommit(h)
        \/ StreamGetOrCreate(h)
        \/ StreamSaveAssistant(h)
        \/ PublicCors(h)
        \/ PublicGetOrCreate(h)
        \/ PublicUserMessage(h)

SpecSession == InitSession /\ [][NextSession]_vars

\* ---------------------------------------------------------------------
\* The document endpoints: upload_document and delete_document.  The
\* requests of a run are served one after the other.

DocRequests == {"r1", "r2"}

\* uuid.uuid4() of the Document that request r creates
DocId(r) == <<"uuid4", r, "document">>

\* the chunks chunk_text makes of an uploaded file, at most
MaxChunks == 2

DocCalls ==
    [kind : {"upload"}, tenant : Tenants, chunks : 1..MaxChunks]
    \cup [kind : {"delete"}, tenant : Tenants, document_id : { DocId(r) : r \in DocRequests }]

\* a request that has entered its endpoint
DocEntered(call) == [call |-> call, pc |-> "start", resp |-> NoResponse, attempts |-> 0]

\* the columns of the two tables that the endpoints read or write
DocumentColumns == {"id", "tenant_id", "status", "chunk_count", "meta_data"}
EmbeddingColumns == {"id", "tenant_id", "content", "meta_data"}

\* Column(..., default=...) of models.py; id, tenant_id and content are
\* given by every caller
ColumnDefault(column) ==
    IF column = "status" THEN "processing"
    ELSE IF column = "chunk_count" THEN 0
    ELSE <<>>

\* the declarative constructor Model(**kwargs): a keyword is accepted when
\* the class has an attribute of that name and is set on the instance;
\* the row holds the mapped columns.  "metadata" is the MetaData attribute
\* of the declarative base and no column, the JSONB column is meta_data.
Construct(columns, kwargs) ==
    [c \in columns |-> IF c \in DOMAIN kwargs THEN kwargs[c] ELSE ColumnDefault(c)]

\* Document(id=..., tenant_id=..., ..., status="processing", metadata={...})
NewDocument(r, tenant_id) ==
    Construct(DocumentColumns,
              [id |-> DocId(r), tenant_id |-> tenant_id, status |-> "processing",
               metadata |-> [extract_structured |-> FALSE]])

\* Embedding(id=uuid.uuid4(), tenant_id=tenant, content=content,
\*           embedding=embedding, metadata={"document_id": str(document.id)})
\* for the k-th chunk of the file of request r
NewEmbedding(r, tenant_id, k) ==
    Construct(EmbeddingColumns,
              [id |-> <<"uuid4", r, k>>, tenant_id |-> tenant_id,
               content |-> <<"chunk", r, k>>,
               metadata |-> [document_id |-> DocId(r)]])

\* the rows of request r's upload are known by their content
FromUpload(e, document_id) == e.content[1] = "chunk" /\ DocId(e.content[2]) = document_id

\* Embedding.meta_data["document_id"].astext == document_id
MetaMatches(e, document_id) ==
    "document_id" \in DOMAIN e.meta_data /\ e.meta_data["document_id"] = document_id

\* no request is between its first and its last step
NoneInFlight == \A r \in DocRequests : upload[r].pc \in {"start", "done"}

\* document.X = v; db.commit() on the stored row of request r
SetDocument(r, status, chunk_count) ==
    { IF d.id = DocId(r) THEN [d EXCEPT !.status = status, !.chunk_count = chunk_count]
      ELSE d : d \in documents }

\* upload_document: db.add(document); db.commit(); db.refresh(document).
\* When the commit raises, the outer handler answers 500.
UploadCreate(r) ==
    /\ upload[r].pc = "start" /\ upload[r].call.kind = "upload"
    /\ NoneInFlight
    /\ \E ok \in BOOLEAN :
          IF ok
          THEN /\ documents' = documents \cup {NewDocument(r, upload[r].call.tenant)}
               /\ upload' = [upload EXCEPT ![r].pc = "extract"]
          ELSE /\ upload' = [upload EXCEPT ![r].pc = "done", ![r].resp = [status |-> 500]]
               /\ UNCHANGED documents
    /\ UNCHANGED embeddings
    /\ UNCHANGED <<chatVars, ingestVars, contactVars, sessionVars, wizardVars>>

\* result = await process_document(...): text, or success False (the
\* handler sets "failed", commits and raises into its own except branch,
\* which sets "failed" and commits once more), or an exception
UploadExtract(r) ==
    /\ upload[r].pc = "extract"
    /\ \E out \in {"text", "no_success", "raises"} :
          upload' = [upload EXCEPT
                        ![r].pc = IF out = "text" THEN "embed" ELSE "failing",
                        ![r].attempts = IF out = "no_success" THEN 2
                                        ELSE IF out = "raises" THEN 1 ELSE 0]
    /\ UNCHANGED <<documents, embeddings>>
    /\ UNCHANGED <<chatVars, ingestVars, contactVars, sessionVars, wizardVars>>

\* chunks = chunk_text(text); embedding_data = await embed_chunks_async(...)
UploadEmbed(r) ==
    /\ upload[r].pc = "embed"
    /\ \E ok \in BOOLEAN :
          upload' = [upload EXCEPT ![r].pc = IF ok THEN "store" ELSE "failing",
                                   ![r].attempts = IF ok THEN 0 ELSE 1]
    /\ UNCHANGED <<documents, embeddings>>
    /\ UNCHANGED <<chatVars, ingestVars, contactVars, sessionVars, wizardVars>>

\* db.add_all(embeddings); document.status = "completed";
\* document.chunk_count = len(chunks); db.commit(): one transaction
UploadStore(r) ==
    /\ upload[r].pc = "store"
    /\ \E ok \in BOOLEAN :
          IF ok
          THEN /\ embeddings' = embeddings \cup
                     { NewEmbedding(r, upload[r].call.tenant, k) :
                         k \in 1..upload[r].call.chunks }
               /\ documents' = SetDocument(r, "completed", upload[r].call.chunks)
               /\ upload' = [upload EXCEPT ![r].pc = "done", ![r].resp = [status |-> 200]]
          ELSE /\ upload' = [upload EXCEPT ![r].pc = "failing", ![r].attempts = 1]
               /\ UNCHANGED <<documents, embeddings>>
    /\ UNCHANGED <<chatVars, ingestVars, contactVars, sessionVars, wizardVars>>

\* document.status = "failed"; document.error_message = ...; db.commit();
\* raise HTTPException(500).  A commit that raises leaves the stored row
\* as it was; out of the except branch the exception reaches the outer
\* handler, which answers 500 as well.
UploadMarkFailed(r) ==
    /\ upload[r].pc = "failing"
    /\ \E ok \in BOOLEAN :
          IF ok
          THEN /\ documents' = SetDocument(r, "failed", 0)
               /\ upload' = [upload EXCEPT ![r].pc = "done", ![r].resp = [status |-> 500]]
          ELSE /\ UNCHANGED documents
               /\ upload' = [upload EXCEPT
                     ![r].pc = IF upload[r].attempts > 1 THEN "failing" ELSE "done",
                     ![r].attempts = @ - 1,
                     ![r].resp = IF upload[r].attempts > 1 THEN @ ELSE [status |-> 500]]
    /\ UNCHANGED embeddings
    /\ UNCHANGED <<chatVars, ingestVars, contactVars, sessionVars, wizardVars>>

\* delete_document: 404 when the tenant has no such document; else the
\* embeddings whose meta_data names the document and the document row are
\* deleted in one transaction
DeleteDocument(r) ==
    /\ upload[r].pc = "start" /\ upload[r].call.kind = "delete"
    /\ NoneInFlight
    /\ LET id == upload[r].call.document_id
           found == { d \in documents : d.id = id /\ d.tenant_id = upload[r].call.tenant }
       IN  IF found = {}
           THEN /\ upload' = [upload EXCEPT ![r].pc = "done", ![r].resp = [status |-> 404]]
                /\ UNCHANGED <<documents, embeddings>>
           ELSE \E ok \in BOOLEAN :
                  IF ok
                  THEN /\ embeddings' = { e \in embeddings : ~MetaMatches(e, id) }
                       /\ documents' = documents \ found
                       /\ upload' = [upload EXCEPT ![r].pc = "done",
                                                   ![r].resp = [status |-> 200]]
                  ELSE /\ upload' = [upload EXCEPT ![r].pc = "done",
                                                   ![r].resp = [status |-> 500]]
                       /\ UNCHANGED <<documents, embeddings>>
    /\ UNCHANGED <<chatVars, ingestVars, contactVars, sessionVars, wizardVars>>

InitDocs ==
    /\ ChatIdle /\ IngestIdle
    /\ ContactIdle /\ SessionIdle /\ WizardIdle
    /\ documents = {}
    /\ embeddings = {}
    /\ upload \in [DocRequests -> { DocEntered(call) : call \in DocCalls }]

NextDocs ==
    \E r \in DocRequests :
        \/ UploadCreate(r)
        \/ UploadExtract(r)
        \/ UploadEmbed(r)
        \/ UploadStore(r)
        \/ UploadMarkFailed(r)
        \/ DeleteDocument(r)

SpecDocs == InitDocs /\ [][NextDocs]_vars

\* ---------------------------------------------------------------------
\* The upload wizard of the Streamlit application (upload_workflow.py).
\* One action is one interaction of the user and the script run that
\* follows it; st.session_state lives as long as the browser session.

\* documents saved in one run of the model, at most
MaxSaves == 2

NoFile == [name |-> "", extension |-> "", words |-> <<>>]

\* the files the user has at hand; the last one yields no text
Files ==
    { [name |-> "a", extension |-> "txt", words |-> <<"alpha", "one">>],
      [name |-> "b", extension |-> "PDF", words |-> <<"beta", "two", "three">>],
      [name |-> "c", extension |-> "csv", words |-> <<>>] }

\* uploaded_file.name.split('.')[-1].lower() and the format it stands for
FileType(file) ==
    IF file.extension \in {"pdf", "PDF"} THEN "PDF"
    ELSE IF file.extension \in {"csv", "CSV"} THEN "CSV"
    ELSE IF file.extension \in {"xlsx", "xls"} THEN "Excel"
    ELSE "Text"

\* file_type.lower()
Lower(file_type) ==
    IF file_type = "PDF" THEN "pdf"
    ELSE IF file_type = "CSV" THEN "csv"
    ELSE IF file_type = "Excel" THEN "excel"
    ELSE "text"

\* extract_pdf_text / extract_csv_text / extract_text_file: the words of
\* the file, none when the file cannot be read
FileText(file) == file.words

\* extract_structured_data_llm(full_text, file_type): the structured data
\* found in the text
extract_structured_data_llm(full_text, file_type) ==
    [provider_name |-> IF full_text = <<>> THEN "" ELSE full_text[1],
     description |-> full_text, format |-> file_type]

\* normalize_text(extracted_data): the text that is chunked and embedded
normalize_text(extracted_data) ==
    (IF extracted_data.provider_name = "" THEN <<>>
     ELSE <<"PROVIDER:", extracted_data.provider_name>>)
    \o <<"DESCRIPTION:">> \o extracted_data.description

\* workflow_data[key] = value
Put(data, key, value) ==
    [k \in DOMAIN data \cup {key} |-> IF k = key THEN value ELSE data[k]]

\* upload_workflow_page on a session without workflow state
NewWizard(tenant_id) ==
    [user |-> tenant_id, workflow_step |-> 1,
     workflow_data |-> [k \in {"tenant_id"} |-> tenant_id]]

\* step_1_upload reads workflow_data.get('tenant_id') and slices it:
\* None[:8] raises TypeError and the script run ends there
Step1Runs(data) == "tenant_id" \in DOMAIN data

\* step_1_upload with a file in the uploader
Step1Stores(data, file) ==
    LET typed == Put(data, "file_type", FileType(file))
    IN  IF FileText(file) # <<>>
        THEN Put(Put(typed, "full_text", FileText(file)), "filename", file.name)
        ELSE typed

\* step_2_configure: the chunk size follows the word count of full_text
\* (documents of at most 500 words are one chunk)
Step2Stores(data) ==
    Put(Put(data, "use_structured", TRUE), "chunk_size", Len(data["full_text"]))

\* step_3_preview: the extraction runs when no processed_data is held
Step3Stores(data) ==
    IF "processed_data" \in DOMAIN data
    THEN data
    ELSE LET extracted_data ==
                 extract_structured_data_llm(data["full_text"], Lower(data["file_type"]))
         IN  Put(Put(data, "processed_data", extracted_data),
                 "final_text", normalize_text(extracted_data))

\* reset_workflow
ResetData == [k \in {} |-> ""]

WizardAt(step) == page = "ok" /\ wizard.workflow_step = step

WizardFrame == UNCHANGED <<chatVars, ingestVars, contactVars, sessionVars, docVars>>

\* the user puts a file into the uploader of step 1
UploadFile(file) ==
    /\ WizardAt(1)
    /\ file # uploader
    /\ uploader' = file
    /\ wizard' = [wizard EXCEPT !.workflow_data = Step1Stores(@, file)]
    /\ UNCHANGED <<page, saved>>
    /\ WizardFrame

\* "Next: Configure Processing", shown when the file in the uploader gave
\* text; step 2 is rendered, the uploader of step 1 is not
Next1 ==
    /\ WizardAt(1)
    /\ uploader # NoFile /\ FileText(uploader) # <<>>
    /\ wizard' = [wizard EXCEPT !.workflow_step = 2, !.workflow_data = Step2Stores(@)]
    /\ uploader' = NoFile
    /\ UNCHANGED <<page, saved>>
    /\ WizardFrame

\* "Back to Upload": step 1 is rendered with an empty uploader
Back2 ==
    /\ WizardAt(2)
    /\ wizard' = [wizard EXCEPT !.workflow_step = 1]
    /\ page' = IF Step1Runs(wizard.workflow_data) THEN "ok" ELSE "crashed"
    /\ UNCHANGED <<uploader, saved>>
    /\ WizardFrame

\* "Next: Preview Data"
Next2 ==
    /\ WizardAt(2)
    /\ wizard' = [wizard EXCEPT !.workflow_step = 3, !.workflow_data = Step3Stores(@)]
    /\ UNCHANGED <<uploader, page, saved>>
    /\ WizardFrame

\* "Back to Configure"
Back3 ==
    /\ WizardAt(3)
    /\ wizard' = [wizard EXCEPT !.workflow_step = 2, !.workflow_data = Step2Stores(@)]
    /\ UNCHANGED <<uploader, page, saved>>
    /\ WizardFrame

\* "Next: Confirm & Save"
Next3 ==
    /\ WizardAt(3)
    /\ wizard' = [wizard EXCEPT !.workflow_step = 4]
    /\ UNCHANGED <<uploader, page, saved>>
    /\ WizardFrame

\* "Back to Preview"
Back4 ==
    /\ WizardAt(4)
    /\ wizard' = [wizard EXCEPT !.workflow_step = 3, !.workflow_data = Step3Stores(@)]
    /\ UNCHANGED <<uploader, page, saved>>
    /\ WizardFrame

\* "Process & Save Document": process_and_save chunks final_text, embeds
\* the chunks under workflow_data['tenant_id'] and inserts the records;
\* an exception (a missing key, the embedding service, the database) is
\* shown and the wizard stays at step 4
ProcessAndSave ==
    /\ WizardAt(4)
    /\ Len(saved) < MaxSaves
    /\ \E ok \in BOOLEAN :
          IF ok /\ "tenant_id" \in DOMAIN wizard.workflow_data
          THEN /\ saved' = Append(saved,
                     [tenant_id |-> wizard.workflow_data["tenant_id"],
                      final_text |-> wizard.workflow_data["final_text"],
                      full_text |-> wizard.workflow_data["full_text"],
                      file_type |-> wizard.workflow_data["file_type"]])
               /\ wizard' = [wizard EXCEPT
                     !.workflow_step = 5,
                     !.workflow_data = Put(@, "processing_results", TRUE)]
          ELSE UNCHANGED <<wizard, saved>>
    /\ UNCHANGED <<uploader, page>>
    /\ WizardFrame

\* "Upload Another Document": reset_workflow, then the page runs again;
\* workflow_data is in the session, so upload_workflow_page sets no
\* tenant_id, and step 1 is rendered
UploadAnother ==
    /\ WizardAt(5)
    /\ wizard' = [wizard EXCEPT !.workflow_step = 1, !.workflow_data = ResetData]
    /\ page' = IF Step1Runs(ResetData) THEN "ok" ELSE "crashed"
    /\ UNCHANGED <<uploader, saved>>
    /\ WizardFrame

\* the user opens the page in a new browser session: st.session_state is
\* empty and upload_workflow_page initialises it
Reload ==
    /\ page = "crashed"
    /\ wizard' = NewWizard(wizard.user)
    /\ page' = "ok"
    /\ uploader' = NoFile
    /\ UNCHANGED saved
    /\ WizardFrame

InitWizard ==
    /\ ChatIdle /\ IngestIdle
    /\ ContactIdle /\ SessionIdle /\ DocsIdle
    /\ \E tenant_id \in Tenants : wizard = NewWizard(tenant_id)
    /\ uploader = NoFile
    /\ page = "ok"
    /\ saved = <<>>

NextWizard ==
    \/ \E file \in Files : UploadFile(file)
    \/ Next1
    \/ Back2
    \/ Next2
    \/ Back3
    \/ Next3
    \/ Back4
    \/ ProcessAndSave
    \/ UploadAnother
    \/ Reload

SpecWizard == InitWizard /\ [][NextWizard]_vars


Last(s) == s[Len(s)]

FramesOfType(t) == { i \in 1..Len(frames) : frames[i].type = t }

\* the concatenation, in emission order, of the contents of the chunk frames
RECURSIVE ChunkText(_)
ChunkText(fs) ==
    IF fs = <<>> THEN <<>>
    ELSE (IF Head(fs).type = "chunk" THEN Head(fs).content ELSE <<>>) \o ChunkText(Tail(fs))

\* a text with one space put after the bullet marker of every bullet line
SpaceBulletsLine(line) ==
    IF Strip(line) # <<>> /\ Head(Strip(line)) = BULLET
    THEN <<BULLET, SP>> \o Tail(Strip(line))
    ELSE line

SpaceBullets(t) ==
    LET lines == SplitOn(t, <<NL>>)
    IN  JoinWith(<<NL>>, [i \in 1..Len(lines) |-> SpaceBulletsLine(lines[i])])

\* line i of the emitted text starts with the bullet marker exactly when
\* line i of the answer does, leading whitespace aside
SameBulletLines(out, t) ==
    LET ol == SplitOn(out, <<NL>>)
        tl == SplitOn(t, <<NL>>)
    IN  /\ Len(ol) = Len(tl)
        /\ \A i \in 1..Len(ol) :
              (ol[i] # <<>> /\ Head(ol[i]) = BULLET)
                 <=> (Strip(tl[i]) # <<>> /\ Head(Strip(tl[i])) = BULLET)

StreamEnded == req.entry = "stream" /\ pc \in {"complete", "done"}

\* C1: tenant isolation.  Every passage a retrieval call returns (the single
\* query of the API, each of the two results of the batch query, and the
\* result of the app with its category-specific and raw-query stages) is a
\* row whose tenant_id is the tenant of the request.
C1_TenantIsolation ==
    /\ \A i \in 1..Len(retr.val) : RowOf(retr.val[i]).tenant_id = req.tenant
    /\ (req.entry = "batch" /\ resp.st = "returned") =>
          \A k \in 1..Len(resp.val) : \A i \in 1..Len(resp.val[k]) :
              RowOf(resp.val[k][i]).tenant_id = req.tenant

\* a non-empty result drawn from a store that also holds another tenant's rows
C1_Witness ==
    /\ \E r \in store : r.tenant_id # req.tenant
    /\ \/ retr.st = "returned" /\ retr.val # <<>>
       \/ req.entry = "batch" /\ resp.st = "returned" /\ resp.val[1] # <<>>

\* C2 as amended: once every chunk has been yielded, the concatenation of the
\* chunk contents has the words of the answer text in the same order, where
\* the answer text first gets one space after the bullet marker of each
\* bullet line; the number of lines is kept and a line starts with the
\* bullet marker in the output exactly when it does in the answer.
C2_StreamFidelity ==
    StreamEnded /\ answer.st = "returned" =>
        /\ Split(ChunkText(frames)) = Split(SpaceBullets(answer.val))
        /\ SameBulletLines(ChunkText(frames), answer.val)

\* a bullet line whose marker touches its first word and whose two words are
\* two spaces apart, fully emitted
C2_Witness ==
    /\ StreamEnded
    /\ answer.val = <<BULLET, "a", SP, SP, "b">>
    /\ ChunkText(frames) = <<BULLET, SP, "a", SP, "b">>

\* C2 as stated: the concatenation of the chunk contents equals the answer
\* text once runs of whitespace are collapsed (compared word by word).
C2_Original ==
    StreamEnded /\ answer.st = "returned" =>
        Split(ChunkText(frames)) = Split(answer.val)

\* C3 as stated: a stream consumed to its end consists of chunk frames
\* followed by exactly one terminal frame (complete or error), the last one.
C3_StreamShape ==
    req.entry = "stream" /\ pc = "done" =>
        /\ frames # <<>>
        /\ Last(frames).type \in {"complete", "error"}
        /\ \A i \in 1..(Len(frames) - 1) : frames[i].type = "chunk"

\* C4 as stated: the complete frame carries the sources, contact_info,
\* categories and providers generate_answer returns for the same question
\* and the same passages.
C4_SameMetadata ==
    StreamEnded =>
        \A i \in FramesOfType("complete") : \A llm \in LlmOutcomes :
            LET a == generate_answer(req.q, Contents(retr.val), llm)
            IN  /\ frames[i].sources = a.sources
                /\ frames[i].contact_info = a.contact_info
                /\ frames[i].categories = a.categories
                /\ frames[i].providers = a.providers

C6_EmbeddingFailureDegrades ==
    (\E site \in {"embed", "embed_categories", "embed_original"} : site \in retr.exc) =>
        /\ retr.st = "returned"
        /\ retr.val = <<>>
        /\ pc = "done" /\ client = "connected" => answer.st = "returned"

\* C7 as stated: a failure of the vector store query reaches the caller of
\* retrieval as an error, so that it never has the return value of a query
\* that matched no passage.
C7_StoreFailureDistinct ==
    "store" \in retr.exc => retr.st = "raised"

\* C8: when the LLM call fails, generate_single_prompt_response raises
\* nothing and returns a non-empty text, for every question and every list
\* of passages; that text is what the request answers with.
C8_TemplateFallback ==
    (req.entry \in {"stream", "query"} /\ "llm" \in raised) =>
        /\ answer.st = "returned"
        /\ answer.val # <<>>
        /\ pc = "done" /\ req.entry = "query" /\ "save" \notin raised =>
              resp.val.status = 200 /\ resp.val.answer = answer.val
        /\ StreamEnded => ChunkText(frames) # <<>> /\ ChunkText(frames) # ApologyText

\* the LLM failed on a question answered from retrieved passages
C8_Witness ==
    /\ req.entry = "stream" /\ pc = "done"
    /\ "llm" \in answer.exc
    /\ retr.val # <<>>
    /\ Len(answer.val) > Len(NoInfoText)

\* C9 as amended: a failure of the embedding, of the store query or of the
\* LLM call is absorbed where it happens and the stream ends with a complete
\* frame and without an error frame; an exception that reaches the except
\* branch of stream_chat_response (the save of the assistant message failing)
\* gives exactly one error frame, which is the last frame of the stream.
C9_ErrorFrame ==
    req.entry = "stream" =>
        /\ Cardinality(FramesOfType("error")) <= 1
        /\ FramesOfType("error") # {} => Last(frames).type = "error" /\ pc = "done"
        /\ pc = "done" /\ "save" \in raised =>
              FramesOfType("error") # {}
        /\ pc = "done" /\ "save" \notin raised =>
              FramesOfType("error") = {} /\ Last(frames).type = "complete"

\* the save of the assistant message failed and the error frame was emitted
C9_Witness ==
    /\ req.entry = "stream" /\ pc = "done"
    /\ "save" \in raised
    /\ Last(frames) = ErrorFrame

\* C9 as stated: once an exception was raised while the streamed response
\* was produced, the finished stream holds exactly one error frame, as its
\* last frame, and no complete frame.
C9_Original ==
    (req.entry = "stream" /\ pc = "done" /\ raised # {}) =>
        /\ Cardinality(FramesOfType("error")) = 1
        /\ Last(frames).type = "error"
        /\ FramesOfType("complete") = {}

\* C10: once the consumer has disconnected, at whichever suspension point,
\* no frame of any type is emitted, by the step of the disconnection or by
\* any later step, and the generator is closed: nothing of the interrupted
\* answer is produced again.
C10_Cancellable ==
    [][client' = "disconnected" => frames' = frames /\ pc' = "closed"]_vars

\* the consumer left in the middle of the answer, chunks still to come
C10_Witness ==
    /\ client = "disconnected"
    /\ frames # <<>>
    /\ pending # <<>>

\* C11 as amended: the API's retrieval and each result of the batch query
\* hold at most top_k passages; the app's retrieval holds at most top_k
\* passages when no category was detected in the question (initial query,
\* raw-query fallback) and at most top_k + 2 when category widening ran.
C11_ResultBound ==
    /\ req.entry \in {"stream", "query"} => Len(retr.val) <= req.top_k
    /\ req.entry = "app" =>
          /\ Len(retr.val) <= req.top_k + WidenMargin
          /\ req.q.cats = <<>> => Len(retr.val) <= req.top_k
    /\ (req.entry = "batch" /\ resp.st = "returned") =>
          \A k \in 1..Len(resp.val) : Len(resp.val[k]) <= req.top_k

\* category widening filled the result up to top_k + 2 and left rows out
C11_Witness ==
    /\ req.entry = "app" /\ retr.st = "returned"
    /\ Len(retr.val) = req.top_k + WidenMargin
    /\ Cardinality({ r \in store : r.tenant_id = req.tenant }) > Len(retr.val)

\* C11 as stated: on every path the result holds at most top_k passages.
C11_Original ==
    retr.st = "returned" => Len(retr.val) <= req.top_k

\* the phone strings the normalization "(NNN) NNN-NNNN" produces
NormalizedPhones == { FormatPhone(Digits(p)) : p \in { r \in RawPhones : DigitCount(r) = 10 } }

\* the contact_info the finished request carries, EmptyDict when it has none
ContactInfoOut ==
    IF req.entry = "query" /\ pc = "done" /\ resp.val.status = 200
    THEN resp.val.contact_info
    ELSE IF StreamEnded /\ FramesOfType("complete") # {}
    THEN frames[CHOOSE i \in FramesOfType("complete") : TRUE].contact_info
    ELSE EmptyDict

\* C15 as stated: every phone number extract_contact_info returns is in the
\* form (NNN) NNN-NNNN, from a labeled contact block as from raw text.
C15_PhonesNormalized ==
    ContactInfoOut # EmptyDict =>
        \A i \in 1..Len(ContactInfoOut.phones) : ContactInfoOut.phones[i] \in NormalizedPhones

\* the provider mentions of one passage, labeled or bulleted, in text order
MentionsOf(chunk) ==
    Flatten([i \in 1..Len(chunk) |->
                IF chunk[i].lab \in {"PROVIDER:", "BULLET"} THEN chunk[i].items ELSE <<>>])

\* every mention across the passage list, once, in order of first appearance
ProviderMentions(context_chunks) ==
    Dedup(Flatten([c \in 1..Len(context_chunks) |-> MentionsOf(context_chunks[c])]), <<>>)

\* C16 as stated: the providers field of the non-streaming answer holds
\* every provider matched by either rule, once, in order of first appearance.
C16_AllProviders ==
    (req.entry = "query" /\ pc = "done" /\ resp.val.status = 200) =>
        resp.val.providers = ProviderMentions(Contents(retr.val))

\* C17 as amended: when the LLM call fails, the chunks of the stream are the
\* chunks of the template answer and none of them is the apology message;
\* the stream then goes on to its complete frame.  The apology is yielded
\* only when the synthesis call itself raises.
C17_DegradedStream ==
    /\ (StreamEnded /\ "llm" \in answer.exc) =>
          /\ answer.st = "returned"
          /\ [i \in 1..Cardinality(FramesOfType("chunk")) |-> frames[i].content]
                = StreamChunks(answer.val)
          /\ \A i \in FramesOfType("chunk") : frames[i].content # ApologyText
          /\ FramesOfType("complete") # {}
    /\ req.entry = "stream" =>
          \A i \in FramesOfType("chunk") :
              frames[i].content = ApologyText => answer.st = "raised"

\* the LLM failed on a question without passages and the stream has ended
C17_Witness ==
    /\ StreamEnded /\ "llm" \in answer.exc
    /\ retr.val = <<>>
    /\ answer.val = NoInfoText
    /\ Cardinality(FramesOfType("chunk")) > 1

\* C17 as stated: when no LLM is reachable the only chunk of the stream is
\* the apology message.
C17_Original ==
    (StreamEnded /\ "llm" \in raised) =>
        [i \in 1..Cardinality(FramesOfType("chunk")) |-> frames[i].content] = <<ApologyText>>

\* the section a line of the template answer opens: 2 categories, 3 providers,
\* 4 description, 5 contact, 6 next steps; 0 for any other line
SectionRank(line) ==
    IF line = <<>> THEN 0
    ELSE IF Head(line) \in {"ServiceCategory", "RelatedCategories"} THEN 2
    ELSE IF Head(line) \in {"AvailableProvider", "AvailableProviders"} THEN 3
    ELSE IF Head(line) = "AboutTheseServices" THEN 4
    ELSE IF Head(line) = "HowToGetStarted" THEN 5
    ELSE IF Head(line) = "NextSteps" THEN 6
    ELSE 0

RECURSIVE SectionRanks(_)
\* the sections of a text, in the order in which their headers appear
SectionRanks(lines) ==
    IF lines = <<>> THEN <<>>
    ELSE (IF SectionRank(Head(lines)) > 0 THEN <<SectionRank(Head(lines))>> ELSE <<>>)
         \o SectionRanks(Tail(lines))

\* the LLM call failed on a question with passages
TemplateAnswered ==
    /\ req.entry \in {"stream", "query"}
    /\ answer.st = "returned" /\ "llm" \in answer.exc
    /\ retr.val # <<>>

\* the intro line comes first, each section header appears at most once and
\* in the fixed order, the next steps close the answer, and a section with
\* a field is there exactly when the field is non-empty
SectionsInOrder ==
    LET lines == SplitOn(answer.val, <<NL>>)
        ranks == SectionRanks(lines)
        ctx == Contents(retr.val)
    IN  /\ lines[1] # <<>> /\ SectionRank(lines[1]) = 0 /\ Head(lines[1]) # BULLET
        /\ \A i, j \in 1..Len(ranks) : i < j => ranks[i] < ranks[j]
        /\ ranks # <<>> /\ Last(ranks) = 6
        /\ 2 \in SeqToSet(ranks) <=> extract_categories_from_chunks(ctx) # <<>>
        /\ 3 \in SeqToSet(ranks) <=> ProvidersBothRules(ctx, <<>>) # <<>>
        /\ 4 \in SeqToSet(ranks) <=> Descriptions(ctx) # <<>>
        /\ 5 \in SeqToSet(ranks) <=> AnyValues(extract_contact_info(ctx))

\* C19 as amended: on LLM failure with a non-empty passage list, for every
\* question without a greeting word and without a capability phrase, the
\* template answer has its sections in the order intro, categories,
\* providers, description, contact, next steps; intro and next steps are
\* always there, each other section exactly when its field is non-empty.
\* A question with a greeting word or a capability phrase gets the fixed
\* greeting or capabilities text, which has none of the sections.
C19_SectionOrder ==
    TemplateAnswered =>
        IF "greeting" \in req.q.kw THEN answer.val = GreetingText
        ELSE IF "capability" \in req.q.kw THEN answer.val = CapabilitiesText
        ELSE SectionsInOrder

\* an answer with all six sections
C19_Witness ==
    /\ TemplateAnswered
    /\ SectionRanks(SplitOn(answer.val, <<NL>>)) = <<2, 3, 4, 5, 6>>

\* C19 as stated: for every question, the template answer built on LLM
\* failure from a non-empty passage list has the sections in the fixed order.
C19_Original ==
    TemplateAnswered => SectionsInOrder

\* C12 as stated: unless chunk_text returns the single whole-document chunk,
\* every chunk it returns has at least 10 words, from sentence-based
\* splitting as from the sliding-window fallback.
C12_MinChunkWords ==
    (chunked.st = "returned" /\ chunked.path # "whole") =>
        \A i \in 1..Len(chunked.val) : Len(chunked.val[i]) >= MinChunkWords

\* C13 as stated: for adjacent chunks c[i], c[i+1] of sentence-based
\* splitting with overlap_words = k > 0, the first min(k, words of c[i])
\* words of c[i+1] are, word for word, the last words of c[i].
C13_Overlap ==
    (doc # NoDoc /\ doc.impl = "api" /\ chunked.st = "returned"
        /\ chunked.path = "sentences" /\ doc.overlap_words > 0) =>
        \A i \in 1..(Len(chunked.val) - 1) :
            LET m == Min(doc.overlap_words, Len(chunked.val[i]))
            IN  /\ Len(chunked.val[i + 1]) >= m
                /\ SubSeq(chunked.val[i + 1], 1, m) = LastWords(chunked.val[i], m)

\* C14: without a target size, a document of n words is chunked with target
\* 150 when n < 500, 300 when 500 <= n < 2000, 500 when 2000 <= n < 10000
\* and 800 when n >= 10000; a document of 2400 words gets target 500 and at
\* least 4 chunks.
C14_AdaptiveSize ==
    (doc # NoDoc /\ doc.impl = "api" /\ ~doc.has_size /\ chunked.st = "returned") =>
        LET n == Len(doc.text)
        IN  /\ n < 500 => chunked.size = 150
            /\ (500 <= n /\ n < 2000) => chunked.size = 300
            /\ (2000 <= n /\ n < 10000) => chunked.size = 500
            /\ n >= 10000 => chunked.size = 800
            /\ n = 2400 => Len(chunked.val) >= 4

\* the 2400-word document was chunked
C14_Witness ==
    /\ doc # NoDoc /\ ~doc.has_size /\ Len(doc.text) = 2400
    /\ chunked.st = "returned" /\ chunked.size = 500

\* C20: with a target size above overlap_words no returned chunk has more
\* than 1.5 x target words; the chunks of the sliding-window fallback are
\* runs of at most target consecutive words of the input, starting every
\* (target - overlap_words) words from the first word, and together hold
\* every word of the input in order.
C20_ChunkBound ==
    (doc # NoDoc /\ chunked # NotYet /\ doc.overlap_words < chunked.size) =>
        LET val == chunked.val
            step == chunked.size - doc.overlap_words
            n == Len(doc.text)
        IN  /\ chunked.st = "returned"
            /\ \A i \in 1..Len(val) : 2 * Len(val[i]) <= 3 * chunked.size
            /\ chunked.path = "windows" =>
                  /\ val # <<>>
                  /\ \A k \in 1..Len(val) :
                        /\ Len(val[k]) >= 1 /\ Len(val[k]) <= chunked.size
                        /\ (k - 1) * step + Len(val[k]) <= n
                        /\ val[k] = SubSeq(doc.text, (k - 1) * step + 1,
                                           (k - 1) * step + Len(val[k]))
                  /\ \A p \in 1..n : \E k \in 1..Len(val) :
                        (k - 1) * step < p /\ p <= (k - 1) * step + Len(val[k])
            /\ (chunked.path = "sentences" /\ val # <<>>) => n > chunked.size

\* a text without a period in reach of the target was cut into windows
C20_Witness ==
    /\ doc # NoDoc /\ chunked.st = "returned" /\ chunked.path = "windows"
    /\ doc.overlap_words > 0 /\ doc.overlap_words < chunked.size
    /\ Len(chunked.val) >= 3

\* C18 as stated: the inference model and the client are initialized at
\* most once in the process, under every interleaving of the callers, and
\* every call uses that one instance.
C18_Singleton ==
    /\ loads.extractor <= 1
    /\ loads.client <= 1
    /\ \A w \in Workers : workers[w].pc = "extract" => workers[w].extractor = 1

\* C30 as stated: for a text of more words than the target size, the target
\* above overlap_words, chunk_text returns at least one chunk.
C30_NonEmpty ==
    (doc # NoDoc /\ doc.impl = "api" /\ chunked.st = "returned"
        /\ Len(doc.text) > chunked.size /\ chunked.size > doc.overlap_words) =>
        chunked.val # <<>>

\* the app's retrieval returned after its widening stage ran
Widened == req.entry = "app" /\ "widening" \in DOMAIN retr /\ retr.widening

\* no two entries of the list hold the same content
NoContentTwice(ids) ==
    \A i, j \in 1..Len(ids) : i < j => RowOf(ids[i]).content # RowOf(ids[j]).content

\* C23 as amended: when category widening runs, the list it produces keeps
\* the first query's passages as a prefix in their original order, every
\* passage after that prefix has a content found nowhere earlier in the
\* list, and the list has at most top_k + 2 entries; the passages of the
\* first query themselves may repeat a content.  The call returns that
\* list, or, when the list holds fewer than 100 characters, the longer
\* result of the original query.
C23_WideningResult ==
    Widened =>
        LET f == retr.first
            w == retr.widened
        IN  /\ Len(f) <= Len(w) /\ SubSeq(w, 1, Len(f)) = f
            /\ \A i \in (Len(f) + 1)..Len(w) : \A j \in 1..(i - 1) :
                  RowOf(w[i]).content # RowOf(w[j]).content
            /\ Len(w) <= req.top_k + WidenMargin
            /\ \/ retr.val = w
               \/ /\ TotalLen(w) < SparseChars
                  /\ TotalLen(retr.val) > TotalLen(w)
                  /\ Len(retr.val) <= req.top_k

\* widening added a passage to a first result that holds one content twice
C23_Witness ==
    /\ Widened
    /\ ~NoContentTwice(retr.first)
    /\ Len(retr.widened) > Len(retr.first)

\* C23 as stated: when category widening runs, the list it produces keeps
\* the first query's passages as a prefix, holds no passage content twice
\* and has at most top_k + 2 entries.
C23_Original ==
    Widened =>
        /\ Len(retr.first) <= Len(retr.widened)
        /\ SubSeq(retr.widened, 1, Len(retr.first)) = retr.first
        /\ NoContentTwice(retr.widened)
        /\ Len(retr.widened) <= req.top_k + WidenMargin

\* the labels under which the labeled pass files a line
LabelsOf(k) ==
    IF k = "emails" THEN {"Email:"}
    ELSE IF k = "phones" THEN {"Phone:"}
    ELSE IF k = "websites" THEN {"Website:", "URL:"}
    ELSE {"Address:"}

\* some passage of the list holds a labeled contact block
HasBlock == \E c \in 1..Len(passages) : HasLabel(passages[c], "CONTACT INFORMATION:")

\* v stands on a line labeled for field k in a passage that holds a block
LabeledValue(k, v) ==
    \E c \in 1..Len(passages) :
        /\ HasLabel(passages[c], "CONTACT INFORMATION:")
        /\ \E i \in 1..Len(passages[c]) :
              passages[c][i].lab \in LabelsOf(k) /\ v \in SeqToSet(passages[c][i].items)

\* the strings of a kind that count as a contact of field k
ValidFor(k) ==
    IF k = "emails" THEN Emails
    ELSE IF k = "phones" THEN { p \in RawPhones : DigitCount(p) = 10 }
    ELSE IF k = "websites" THEN { u \in Urls : UrlValid(u) }
    ELSE {}

\* the labeled lines of the passages that hold a block give some contact
LabeledYield ==
    \/ \E k \in {"emails", "phones", "websites"} : \E v \in ValidFor(k) : LabeledValue(k, v)
    \/ \E c \in 1..Len(passages) :
          /\ HasLabel(passages[c], "CONTACT INFORMATION:")
          /\ \E i \in 1..(Len(passages[c]) - 1) :
                passages[c][i].lab = "Address:" /\ passages[c][i].items # <<>>

\* what the raw-text patterns find for field k in a set of lines of the list
ScanOf(k, clean) ==
    LET tokens == UNION { ChunkTokens(passages[c]) : c \in 1..Len(passages) }
        kept == UNION { UNION { SeqToSet(passages[c][i].items) :
                                  i \in { l \in 1..Len(passages[c]) :
                                             ~passages[c][l].malformed } } :
                          c \in 1..Len(passages) }
        found == (IF clean THEN kept ELSE tokens) \cap ValidFor(k)
    IN  IF k = "phones" THEN { FormatPhone(Digits(p)) : p \in found } ELSE found

\* C21 as amended: extract_contact_info scans the raw passage text with the
\* fallback patterns exactly when the labeled lines of the passages that
\* hold a "CONTACT INFORMATION:" block give no contact, be it that no
\* passage holds a block or that the blocks hold nothing valid; whenever
\* the labeled lines give a contact, every returned contact stands on a
\* labeled line of a passage that holds a block.
C21_LabeledFirst ==
    extracted.st = "returned" =>
        \A k \in ContactKeys :
            LET got == SeqToSet(extracted.val[k])
            IN  IF LabeledYield
                THEN \A v \in got : LabeledValue(k, v)
                ELSE /\ got \subseteq ScanOf(k, FALSE)
                     /\ ScanOf(k, FALSE) # {} => got # {}

\* a list with a block that gives nothing, whose contacts came from raw text
C21_Witness ==
    /\ extracted.st = "returned"
    /\ HasBlock /\ ~LabeledYield
    /\ extracted.val["phones"] = <<"(555) 123-4567">>

\* C21 as stated: whenever at least one passage holds the labeled block,
\* every returned contact comes from a labeled line of such a block.
C21_Original ==
    (extracted.st = "returned" /\ HasBlock) =>
        \A k \in ContactKeys : \A v \in SeqToSet(extracted.val[k]) : LabeledValue(k, v)

\* C22 as stated: no contact value extract_contact_info returns is taken
\* from a line for which is_malformed_line is true.
C22_NoiseRejected ==
    extracted.st = "returned" =>
        \A k \in ContactKeys : \A v \in SeqToSet(extracted.val[k]) :
            \/ v \in ScanOf(k, TRUE)
            \/ \E c \in 1..Len(passages) : \E i \in 1..Len(passages[c]) :
                  ~passages[c][i].malformed /\ v \in SeqToSet(passages[c][i].items)

\* C24 as stated: under every interleaving of chat requests, at most one
\* ChatSession row exists for a (tenant_id, session_id) pair.
C24_OneSessionRow ==
    \A r1, r2 \in sessions :
        (r1.tenant_id = r2.tenant_id /\ r1.session_id = r2.session_id) => r1 = r2

\* C29 as stated: a request of the public endpoint from an allowed origin,
\* none of whose steps failed, is answered with status 200 and its
\* session_id, and one user message and one assistant message of its
\* session are stored.
C29_PublicAnswers ==
    \A h \in DOMAIN handlers :
        (handlers[h].call.entry = "public" /\ handlers[h].call.allowed
            /\ handlers[h].pc = "done"
            /\ handlers[h].exc \cap {"answer", "commit"} = {}) =>
            /\ handlers[h].resp.status = 200
            /\ \A t \in {"user", "assistant"} :
                  Cardinality({ m \in messages :
                                  /\ m.session_id = handlers[h].chat_session
                                  /\ m.message_type = t }) = 1

\* C27 as stated: once upload_document has stored the record of a document
\* with status "processing", the stored status is "completed" or "failed"
\* when the request has ended, whichever step failed; and it is
\* "completed" only if the embeddings of the document were stored.
C27_StatusSettled ==
    \A r \in DOMAIN upload :
        (upload[r].call.kind = "upload" /\ upload[r].pc = "done") =>
            \A d \in documents :
                d.id = DocId(r) =>
                    /\ d.status \in {"completed", "failed"}
                    /\ d.status = "completed" =>
                          Cardinality({ e \in embeddings : FromUpload(e, d.id) }) = d.chunk_count

\* C28 as stated: after delete_document has succeeded for a document, no
\* embedding row created by the upload of that document is left.
C28_EmbeddingsDeleted ==
    \A r \in DOMAIN upload :
        (upload[r].call.kind = "delete" /\ upload[r].pc = "done"
            /\ upload[r].resp.status = 200) =>
            \A e \in embeddings : ~FromUpload(e, upload[r].call.document_id)

\* the text that the extraction of step 3 makes of the file the wizard holds
FinalTextOf(full_text, file_type) ==
    normalize_text(extract_structured_data_llm(full_text, Lower(file_type)))

\* C25 as stated: in the upload wizard, whatever the sequence of Next and
\* Back presses and uploads, the final_text that is previewed (steps 3 and
\* 4) and that process_and_save chunks and embeds is derived from the file
\* currently held as full_text.
C25_FinalTextCurrent ==
    /\ (page = "ok" /\ wizard.workflow_step \in {3, 4}) =>
          wizard.workflow_data["final_text"] =
              FinalTextOf(wizard.workflow_data["full_text"], wizard.workflow_data["file_type"])
    /\ \A i \in 1..Len(saved) :
          saved[i].final_text = FinalTextOf(saved[i].full_text, saved[i].file_type)

\* C26 as stated: in every state of the upload wizard that its buttons
\* reach, "Upload Another Document" included, workflow_data holds the
\* tenant_id of the authenticated user, every step runs, and the
\* embeddings are saved under that tenant.
C26_TenantHeld ==
    /\ page = "ok"
    /\ "tenant_id" \in DOMAIN wizard.workflow_data
    /\ wizard.workflow_data["tenant_id"] = wizard.user
    /\ \A i \in 1..Len(saved) : saved[i].tenant_id = wizard.user

====
